---- MODULE Spec2Model ----
(***************************************************************************)
(* Turbo-ECS: the range allocator, the bit field, the archetype tables,    *)
(* the archetype store and the two entity containers (EntityRegistry and   *)
(* EntityStore), as state machines translated from the Rust sources.       *)
(*                                                                         *)
(* A Range<usize> a..b is the pair <<a, b>>.  A BTreeMap<usize, Range> is  *)
(* a function from its keys to ranges; iteration is by ascending key.      *)
(***************************************************************************)
EXTENDS Integers, Sequences, FiniteSets, Bags, TLC

VARIABLES
    build,      \* "debug" | "release": whether arithmetic overflow panics
    alloc,      \* RangeAllocator under test: [used, capacity, ranges]
    live,       \* ghost: the indices handed out by alloc and not yet freed
    res,        \* the last RangeAllocator call and what it returned
    full,       \* ghost: N once [0, N) was entirely allocated, else -1
    arch,       \* ArchetypeInstance under test
    store,      \* ArchetypeStore of the registry: [bf, vec, map, queries, transitions]
    reg,        \* EntityRegistry: [id, capacity, instances, available_instances, bitfield]
    ents,       \* ghost: the handles the creation calls have returned
    par,        \* the par_for_each in progress
    estore,     \* EntityStore: [instances, instance_allocator, bitfield] and its handles
    calls,      \* ghost: the calls made on the registry so far
    dead,       \* ghost: the handles destroy_entities was given and returned on
    bits,       \* the BitFields a BitField call is made on: [a, b, c]
    sys,        \* SystemStore: [state, set, systems]
    statics     \* the process-wide statics and the threads that use them

raVars == <<alloc, live, full>>
ecsVars == <<arch, store, reg, ents, par, estore, calls, dead, bits, sys, statics>>

vars == <<calls, build, alloc, live, res, full, arch, store, reg, ents, par, estore, dead, bits, sys, statics>>

\* the value of a variable the specification at hand does not use
Idle == <<>>

(***************************************************************************)
(* Bounds of the model                                                     *)
(***************************************************************************)
MaxCap == 4         \* RangeAllocator capacity explored
MaxInitCap == 2     \* with_capacity argument explored
MaxN == 6           \* size of the fully allocated interval of the partition runs

Builds == {"debug", "release"}

(***************************************************************************)
(* Ranges and ordered maps                                                 *)
(***************************************************************************)
\* Range::len: end - start, 0 when the range is empty
RLen(r) == IF r[2] > r[1] THEN r[2] - r[1] ELSE 0
\* Range::is_empty
RIsEmpty(r) == ~(r[1] < r[2])
\* the indices a range iterates over
RIdx(r) == {i \in r[1]..(r[2] - 1) : TRUE}

RECURSIVE SeqIdx(_, _)
\* the indices covered by the ranges out[i..]
SeqIdx(out, i) == IF i > Len(out) THEN {} ELSE RIdx(out[i]) \cup SeqIdx(out, i + 1)

MinOf(S) == CHOOSE k \in S : \A j \in S : k <= j

RECURSIVE SortedSeq(_)
\* the keys of a BTreeMap in iteration order
SortedSeq(S) == IF S = {} THEN <<>> ELSE <<MinOf(S)>> \o SortedSeq(S \ {MinOf(S)})

\* BTreeMap::insert (replaces the value of an existing key)
MapInsert(m, k, v) == [x \in (DOMAIN m) \cup {k} |-> IF x = k THEN v ELSE m[x]]
\* BTreeMap::remove (no effect when the key is absent)
MapRemove(m, k) == [x \in (DOMAIN m) \ {k} |-> m[x]]
EmptyMap == [x \in {} |-> <<0, 0>>]

(***************************************************************************)
(* RangeAllocator                                                          *)
(***************************************************************************)
\* RangeAllocator::new / Default
RA_new == [used |-> 0, capacity |-> 0, ranges |-> EmptyMap]

\* RangeAllocator::with_capacity
RA_with_capacity(capacity) ==
    IF capacity = 0 THEN RA_new
    ELSE [used |-> 0, capacity |-> capacity, ranges |-> MapInsert(EmptyMap, 0, <<0, capacity>>)]

\* RangeAllocator::available
RA_available(a) == a.capacity - a.used

\* RangeAllocator::free_ranges: the stored ranges by ascending key
RA_free_ranges(a) == [i \in 1..Cardinality(DOMAIN a.ranges) |-> a.ranges[SortedSeq(DOMAIN a.ranges)[i]]]

\* allocate_new placing the range at used instead of capacity
RA_allocate_new_at_used(a, size) ==
    [a |-> [a EXCEPT !.capacity = a.capacity + size, !.used = a.used + size],
     range |-> <<a.used, a.used + size>>]

\* RangeAllocator::allocate_new: returns [a, range]
RA_allocate_new(a, size) ==
    [a |-> [a EXCEPT !.capacity = a.capacity + size, !.used = a.used + size],
     range |-> <<a.capacity, a.capacity + size>>]

\* RangeAllocator::try_allocate: [ok, a, range] or [ok = FALSE, a, err, underflow].
\* err is size - available(); when available() > size the usize subtraction
\* underflows: underflow is TRUE and err (negative) stands for 2^64 + err.
RA_try_allocate(a, size) ==
    LET fit == {k \in DOMAIN a.ranges : RLen(a.ranges[k]) >= size} IN
    IF fit # {}
    THEN LET start == MinOf(fit)
             used_range == <<start, start + size>>
             range == <<a.ranges[start][1] + size, a.ranges[start][2]>>
             removed == MapRemove(a.ranges, start)
             kept == IF ~RIsEmpty(range) THEN MapInsert(removed, range[1], range) ELSE removed
         IN [ok |-> TRUE, a |-> [a EXCEPT !.ranges = kept, !.used = a.used + size],
             range |-> used_range, err |-> 0, underflow |-> FALSE]
    ELSE [ok |-> FALSE, a |-> a, range |-> <<0, 0>>,
          err |-> size - RA_available(a), underflow |-> RA_available(a) > size]

\* the match of allocate on the result t of try_allocate
RA_allocate_match(a, size, bld, t) ==
    IF t.ok THEN [a |-> t.a, range |-> t.range, panic |-> FALSE]
    ELSE IF t.underflow /\ bld = "debug" THEN [a |-> a, range |-> <<0, 0>>, panic |-> TRUE]
    ELSE [a |-> RA_allocate_new(a, size).a, range |-> RA_allocate_new(a, size).range, panic |-> FALSE]

\* RangeAllocator::allocate: [a, range, panic]; the Err payload is computed
\* (and may underflow) before it is discarded
RA_allocate(a, size, bld) == RA_allocate_match(a, size, bld, RA_try_allocate(a, size))

RECURSIVE RA_frag_loop(_, _, _, _, _)
\* the for loop of allocate_fragmented over self.ranges.values(): keys is the
\* ascending key sequence, i the position; returns [a, remaining, out]
RA_frag_loop(a, keys, i, remaining, out) ==
    IF i > Len(keys) \/ remaining = 0 THEN [a |-> a, remaining |-> remaining, out |-> out]
    ELSE LET range == a.ranges[keys[i]] IN
         IF RLen(range) < remaining
         THEN RA_frag_loop([a EXCEPT !.used = a.used + RLen(range)], keys, i + 1,
                           remaining - RLen(range), Append(out, range))
         ELSE LET new_range == <<range[1] + remaining, range[2]>>
                  start == range[1]
                  removed == MapRemove(a.ranges, start)
                  kept == IF ~RIsEmpty(new_range) THEN MapInsert(removed, new_range[1], new_range)
                          ELSE removed
              IN [a |-> [a EXCEPT !.ranges = kept, !.used = a.used + remaining],
                  remaining |-> 0,
                  out |-> Append(out, <<start, start + remaining>>)]

RECURSIVE RA_remove_starts(_, _, _)
\* the closing loop of allocate_fragmented: self.ranges.remove(&x.start) for x in ranges
RA_remove_starts(m, out, i) ==
    IF i > Len(out) THEN m ELSE RA_remove_starts(MapRemove(m, out[i][1]), out, i + 1)

\* the closing loop applied to the allocator and the output vector: [a, out]
RA_frag_close(a2, out2) ==
    [a |-> [a2 EXCEPT !.ranges = RA_remove_starts(a2.ranges, out2, 1)], out |-> out2]

\* the range of allocate_new put in front of the output ranges
RA_frag_push_front(out, range) == <<range>> \o out

\* the range of allocate_new joined to the last output range or pushed
RA_frag_push(out, range) ==
    IF out # <<>>
    THEN IF out[Len(out)][2] = range[1]
         THEN [out EXCEPT ![Len(out)] = <<out[Len(out)][1], range[2]>>]
         ELSE Append(out, range)
    ELSE Append(out, range)

\* allocate_fragmented that hands out the free chunks and appends no capacity
RA_frag_finish_no_growth(l) == RA_frag_close(l.a, l.out)

\* allocate_fragmented after its for loop returned l
RA_frag_finish(l) ==
    IF l.remaining # 0
    THEN RA_frag_close(RA_allocate_new(l.a, l.remaining).a,
                       RA_frag_push(l.out, RA_allocate_new(l.a, l.remaining).range))
    ELSE RA_frag_close(l.a, l.out)

\* RangeAllocator::allocate_fragmented(size, ranges): returns [a, out]
RA_allocate_fragmented(a, size, ranges) ==
    RA_frag_finish(RA_frag_loop(a, SortedSeq(DOMAIN a.ranges), 1, size, ranges))

\* the Ok(()) of try_allocate_fragmented around what allocate_fragmented did
RA_frag_ok(f) == [ok |-> TRUE, a |-> f.a, out |-> f.out, err |-> 0]

\* try_allocate_fragmented that grows the capacity by the deficit before it reports it
RA_try_allocate_fragmented_reserving(a, size, ranges) ==
    IF RA_available(a) < size
    THEN [ok |-> FALSE, a |-> [a EXCEPT !.capacity = @ + size - RA_available(a)], out |-> ranges,
          err |-> size - RA_available(a)]
    ELSE RA_frag_ok(RA_allocate_fragmented(a, size, ranges))

\* RangeAllocator::try_allocate_fragmented: [ok, a, out, err]
RA_try_allocate_fragmented(a, size, ranges) ==
    IF RA_available(a) < size
    THEN [ok |-> FALSE, a |-> a, out |-> ranges, err |-> size - RA_available(a)]
    ELSE RA_frag_ok(RA_allocate_fragmented(a, size, ranges))

\* find_map(|(k, r)| if r.end == x { Some(k) }): the first key, ascending, whose range ends at x
RA_find_end(m, x) ==
    LET hit == {k \in DOMAIN m : m[k][2] = x} IN
    IF hit = {} THEN -1 ELSE MinOf(hit)

\* free without the merge into the preceding free range
RA_free_no_back_merge(a, range) ==
    IF RIsEmpty(range) THEN a
    ELSE IF range[2] \in DOMAIN a.ranges
    THEN LET key == a.ranges[range[2]][1]
             extend == <<a.ranges[range[2]][1] - RLen(range), a.ranges[range[2]][2]>>
             removed == MapRemove(a.ranges, key)
         IN [a EXCEPT !.used = a.used - RLen(range), !.ranges = MapInsert(removed, extend[1], extend)]
    ELSE [a EXCEPT !.used = a.used - RLen(range), !.ranges = MapInsert(a.ranges, range[1], range)]

\* RangeAllocator::free
RA_free(a, range) ==
    IF RIsEmpty(range) THEN a
    ELSE IF range[2] \in DOMAIN a.ranges
    THEN LET key == a.ranges[range[2]][1]
             extend == <<a.ranges[range[2]][1] - RLen(range), a.ranges[range[2]][2]>>
             removed == MapRemove(a.ranges, key)
             ek == RA_find_end(removed, extend[1])
         IN IF ek = -1
            THEN [a EXCEPT !.used = a.used - RLen(range),
                           !.ranges = MapInsert(removed, extend[1], extend)]
            ELSE [a EXCEPT !.used = a.used - RLen(range),
                           !.ranges = [removed EXCEPT ![ek] = <<removed[ek][1], extend[2]>>]]
    ELSE LET pk == RA_find_end(a.ranges, range[1]) IN
         IF pk # -1
         THEN [a EXCEPT !.used = a.used - RLen(range),
                        !.ranges = [a.ranges EXCEPT ![pk] = <<a.ranges[pk][1], a.ranges[pk][2] + RLen(range)>>]]
         ELSE [a EXCEPT !.used = a.used - RLen(range),
                        !.ranges = MapInsert(a.ranges, range[1], range)]

\* reserve that raises the capacity and stores no free range for it
RA_reserve_unrecorded(a, size) == [a EXCEPT !.capacity = a.capacity + size]

\* RangeAllocator::reserve
RA_reserve(a, size) ==
    [a EXCEPT !.capacity = a.capacity + size,
              !.ranges = MapInsert(a.ranges, a.capacity, <<a.capacity, a.capacity + size>>)]

\* RangeAllocator::ensure_capacity
RA_ensure_capacity(a, capacity) ==
    IF capacity > a.capacity THEN RA_reserve(a, capacity - a.capacity) ELSE a

RECURSIVE RA_used_loop(_, _, _, _)
\* UsedRangeIterator::next called until None: frs are the stored free ranges in
\* key order, i the position of itr, lst the field lst
RA_used_loop(frs, i, lst, cap) ==
    IF i > Len(frs)
    THEN IF lst # cap THEN <<<<lst, cap>>>> ELSE <<>>
    ELSE LET range == <<lst, frs[i][1]>> IN
         IF ~RIsEmpty(range) THEN <<range>> \o RA_used_loop(frs, i + 1, frs[i][2], cap)
         ELSE RA_used_loop(frs, i + 1, frs[i][2], cap)

\* RangeAllocator::used_ranges, collected
RA_used_ranges(a) == RA_used_loop(RA_free_ranges(a), 1, 0, a.capacity)

(***************************************************************************)
(* BitField.  A u32 word is the set of the positions of its set bits,      *)
(* position p (0 = most significant) being the mask FIRST_BIT >> p.        *)
(***************************************************************************)
BITS == 32
Word0 == {}
ALL_BITS_SET == 0..(BITS - 1)

\* BitField::new
BF_new == <<>>

\* BitField::pos_shift
BF_position(a) == a \div BITS
BF_shift(a) == a % BITS

RECURSIVE Zeros(_)
\* repeat(0).take(count)
Zeros(count) == IF count <= 0 THEN <<>> ELSE <<Word0>> \o Zeros(count - 1)

\* BitField::get / get_inlined
BF_get(values, i) ==
    IF Len(values) > BF_position(i) THEN BF_shift(i) \in values[BF_position(i) + 1] ELSE FALSE

\* BitField::extend_to_position
BF_extend_to_position(values, position) == values \o Zeros(position - Len(values) + 1)

\* BitField::set / set_inlined
BF_set(values, i, value) ==
    IF value
    THEN LET ext == IF Len(values) <= BF_position(i) THEN BF_extend_to_position(values, BF_position(i))
                    ELSE values
         IN [ext EXCEPT ![BF_position(i) + 1] = @ \cup {BF_shift(i)}]
    ELSE IF Len(values) <= BF_position(i) THEN values
         ELSE [values EXCEPT ![BF_position(i) + 1] = @ \ {BF_shift(i)}]

\* the precondition of the unchecked accessors: the word exists
BF_in_bounds(values, i) == BF_position(i) < Len(values)

\* BitField::set_inlined_unchecked, inside its precondition
BF_set_unchecked(values, i, value) ==
    IF value THEN [values EXCEPT ![BF_position(i) + 1] = @ \cup {BF_shift(i)}]
    ELSE [values EXCEPT ![BF_position(i) + 1] = @ \ {BF_shift(i)}]

RECURSIVE BF_set_batch_unchecked(_, _, _)
\* BitField::set_batch_unchecked::<true>(indices), from position k of indices
BF_set_batch_unchecked(values, indices, k) ==
    IF k > Len(indices) THEN values
    ELSE BF_set_batch_unchecked(BF_set_unchecked(values, indices[k], TRUE), indices, k + 1)

\* BitField::is_subset_of
BF_is_subset_of(self, other) ==
    IF self = <<>> \/ other = <<>> THEN FALSE
    ELSE \E k \in 1..(IF Len(self) < Len(other) THEN Len(self) ELSE Len(other)) :
            self[k] \subseteq other[k]

\* BitField::clear
BF_clear(values) == [k \in 1..Len(values) |-> Word0]

\* BitField::ensure_capacity
BF_ensure_capacity(values, capacity) ==
    IF Len(values) * BITS < capacity
    THEN LET c0 == capacity \div BITS
             count == IF c0 * BITS < capacity THEN c0 + 1 ELSE c0
         IN values \o Zeros(count - Len(values))
    ELSE values

\* BitField::with_capacity
BF_with_capacity(capacity) == BF_ensure_capacity(<<>>, capacity)

\* BitField::reserve
BF_reserve(values, count) ==
    LET n0 == count \div BITS
        new == IF n0 * BITS < count THEN n0 + 1 ELSE n0
    IN values \o Zeros(new)

\* impl PartialEq for BitField
BF_eq(self, other) ==
    IF Len(self) = Len(other) THEN self = other
    ELSE IF Len(self) < Len(other)
    THEN /\ self = SubSeq(other, 1, Len(self))
         /\ \A k \in (Len(self) + 1)..Len(other) : other[k] = Word0
    ELSE /\ SubSeq(self, 1, Len(other)) = other
         /\ \A k \in (Len(other) + 1)..Len(self) : self[k] = Word0

\* a hash that feeds every stored word to the hasher
BF_hash_all_words(values) == values

\* impl Hash for BitField: the words fed to the hasher
BF_hash(values) ==
    LET nz == {k \in 1..Len(values) : values[k] # Word0} IN
    IF nz = {} THEN <<>>
    ELSE SubSeq(values, 1, (CHOOSE k \in nz : \A j \in nz : j <= k) - 1)

\* the set bits of a bit field
BF_bits(values) == {i \in 0..(Len(values) * BITS - 1) : BF_get(values, i)}

\* find_first_bit: -1 is None
BF_find_first_bit(value, start) ==
    IF start >= BITS THEN -1
    ELSE LET check == {p \in value : p >= start} IN
         IF check = {} THEN -1 ELSE MinOf(check)

\* find_last_bit: -1 is None
BF_find_last_bit(value, start) ==
    IF start >= BITS THEN -1
    ELSE LET check == {p \in ALL_BITS_SET \ value : p >= start} IN
         IF check = {} THEN -1 ELSE MinOf(check)

RECURSIVE BF_skip_zero(_, _, _)
\* the while loop over zero words at the head of next: [index, sub_index]
BF_skip_zero(values, index, sub_index) ==
    IF index >= Len(values) THEN [index |-> index, sub_index |-> sub_index]
    ELSE IF values[index + 1] = Word0 THEN BF_skip_zero(values, index + 1, 0)
    ELSE [index |-> index, sub_index |-> sub_index]

RECURSIVE BF_run_on(_, _, _, _)
\* the while loop of next that follows a run into the next words:
\* [range, index, sub_index]
BF_run_on(values, index, start, end) ==
    IF index < Len(values)
    THEN IF values[index + 1] = ALL_BITS_SET
         THEN BF_run_on(values, index + 1, start, end + BITS)
         ELSE LET last_bit == BF_find_last_bit(values[index + 1], 0) IN
              [range |-> <<start, end + last_bit>>, index |-> index, sub_index |-> last_bit + 1]
    ELSE [range |-> <<start, end>>, index |-> index, sub_index |-> 0]

\* BitFieldRangeIterator::next: [some, range, index, sub_index]
BF_next(values, index0, sub_index0) ==
    IF index0 >= Len(values)
    THEN [some |-> FALSE, range |-> <<0, 0>>, index |-> index0, sub_index |-> sub_index0]
    ELSE LET sk == BF_skip_zero(values, index0, sub_index0) IN
         IF sk.index >= Len(values)
         THEN [some |-> FALSE, range |-> <<0, 0>>, index |-> sk.index, sub_index |-> sk.sub_index]
         ELSE LET value == values[sk.index + 1]
                  first_bit == BF_find_first_bit(value, sk.sub_index)
                  last_bit == BF_find_last_bit(value, first_bit)
                  start == sk.index * BITS + first_bit
              IN IF first_bit = -1
                 THEN [some |-> FALSE, range |-> <<0, 0>>, index |-> sk.index, sub_index |-> sk.sub_index]
                 ELSE IF last_bit # -1
                 THEN [some |-> TRUE, range |-> <<start, sk.index * BITS + last_bit>>,
                       index |-> sk.index, sub_index |-> last_bit + 1]
                 ELSE LET r == BF_run_on(values, sk.index + 1, start, (sk.index + 1) * BITS)
                      IN [some |-> TRUE, range |-> r.range, index |-> r.index,
                          sub_index |-> IF r.index < Len(values) THEN r.sub_index ELSE sk.sub_index]

RECURSIVE BF_iter_from(_, _, _)
RECURSIVE BF_iter_step(_, _)
\* for range in iter_ranges(): the ranges yielded until the first None
BF_iter_from(values, index, sub_index) == BF_iter_step(values, BF_next(values, index, sub_index))

\* one turn of that loop on the result n of next
BF_iter_step(values, n) ==
    IF n.some THEN <<n.range>> \o BF_iter_from(values, n.index, n.sub_index) ELSE <<>>

\* BitField::iter_ranges, collected
BF_iter_ranges(values) == BF_iter_from(values, 0, 0)

(***************************************************************************)
(* AnyBuffer: a column is the sequence of its cells, capacity() its length.*)
(* A cell holds a component value, Default (T::default()), Dropped (a      *)
(* value whose destructor has run) or Uninit (memory never written).       *)
(***************************************************************************)
Uninit == "uninit"
Dropped == "dropped"
Default == "default"

RECURSIVE Cells(_)
\* make_buffer: count cells of fresh memory
Cells(count) == IF count <= 0 THEN <<>> ELSE <<Uninit>> \o Cells(count - 1)

\* AnyBuffer::with_capacity_default
AB_with_capacity_default(capacity) == Cells(capacity)

\* AnyBuffer::new_default
AB_new_default == AB_with_capacity_default(1)

\* AnyBuffer::capacity
AB_capacity(b) == Len(b)

\* an ensure_capacity that adds capacity cells instead of growing to capacity
AB_ensure_capacity_additive(b, capacity) == b \o Cells(capacity)

\* AnyBuffer::ensure_capacity
AB_ensure_capacity(b, capacity) ==
    IF AB_capacity(b) < capacity THEN b \o Cells(capacity - AB_capacity(b)) ELSE b

\* the bounds every ranged accessor of AnyBuffer debug_asserts
AB_range_ok(b, range) ==
    /\ range[1] < AB_capacity(b)
    /\ RLen(range) <= AB_capacity(b) - range[1]

\* AnyBuffer::default_values
AB_default_values(b, range) == [k \in 1..Len(b) |-> IF (k - 1) \in RIdx(range) THEN Default ELSE b[k]]

\* AnyBuffer::drop_values
AB_drop_values(b, range) == [k \in 1..Len(b) |-> IF (k - 1) \in RIdx(range) THEN Dropped ELSE b[k]]

\* AnyBuffer::copy_values: the destination buffer afterwards
AB_copy_values(src, dst, range, dst_offset) ==
    [k \in 1..Len(dst) |->
        IF (k - 1) \in dst_offset..(dst_offset + RLen(range) - 1)
        THEN src[range[1] + (k - 1 - dst_offset) + 1] ELSE dst[k]]

(***************************************************************************)
(* ArchetypeInstance: [id, bitfield, entities, allocator,                  *)
(* component_bitfield, components, buffers].  buffers maps a component id  *)
(* to its column, entities is the back-reference vector.                   *)
(***************************************************************************)
\* an element of the entities vector that set_len exposed without writing it
UninitEntity == [instance |-> 0, registry_id |-> 0, version |-> 0]

RECURSIVE AI_component_bits(_, _, _)
\* the bits set while with_capacity (or create_archetype) walks components
AI_component_bits(components, k, bf) ==
    IF k > Len(components) THEN bf
    ELSE AI_component_bits(components, k + 1, BF_set(bf, components[k], TRUE))

\* ArchetypeInstance::with_capacity
AI_with_capacity(id, components, capacity) ==
    [id |-> id,
     bitfield |-> BF_with_capacity(capacity),
     entities |-> <<>>,
     allocator |-> RA_with_capacity(capacity),
     component_bitfield |-> AI_component_bits(components, 1, BF_new),
     components |-> components,
     buffers |-> [c \in {components[k] : k \in 1..Len(components)} |->
                     AB_ensure_capacity(AB_new_default, capacity)]]

\* entities.reserve(needed); entities.set_len(needed)
AI_entities_set_len(entities, needed) ==
    [k \in 1..needed |-> IF k <= Len(entities) THEN entities[k] ELSE UninitEntity]

\* the Err(needed) arm of take_slots_no_init; f is what allocate_fragmented does
AI_take_grow(ai, needed, f) ==
    [ai |-> [ai EXCEPT
               !.buffers = [c \in DOMAIN ai.buffers |->
                              AB_ensure_capacity(ai.buffers[c], ai.allocator.capacity + needed)],
               !.entities = AI_entities_set_len(ai.entities, needed),
               !.allocator = f.a,
               !.bitfield = BF_ensure_capacity(ai.bitfield, f.a.capacity)],
     ranges |-> f.out]

\* the match of take_slots_no_init on the result t of try_allocate_fragmented
AI_take_match(ai, count, t) ==
    IF t.ok THEN [ai |-> [ai EXCEPT !.allocator = t.a], ranges |-> t.out]
    ELSE AI_take_grow(ai, t.err, RA_allocate_fragmented(ai.allocator, count, <<>>))

\* ArchetypeInstance::take_slots_no_init: [ai, ranges]
AI_take_slots_no_init(ai, count) ==
    AI_take_match(ai, count, RA_try_allocate_fragmented(ai.allocator, count, <<>>))

RECURSIVE AI_default_ranges(_, _, _)
\* for range in ranges.iter() { buffer.default_values(range) }
AI_default_ranges(b, ranges, k) ==
    IF k > Len(ranges) THEN b ELSE AI_default_ranges(AB_default_values(b, ranges[k]), ranges, k + 1)

\* the loops of take_slots over what take_slots_no_init returned
AI_take_default(t) ==
    [ai |-> [t.ai EXCEPT !.buffers = [c \in DOMAIN t.ai.buffers |->
                                         AI_default_ranges(t.ai.buffers[c], t.ranges, 1)]],
     ranges |-> t.ranges,
     fault |-> \E c \in DOMAIN t.ai.buffers : \E k \in 1..Len(t.ranges) :
                  ~AB_range_ok(t.ai.buffers[c], t.ranges[k])]

\* ArchetypeInstance::take_slots: [ai, ranges, fault]; fault is a ranged
\* access outside a column
AI_take_slots(ai, count) == AI_take_default(AI_take_slots_no_init(ai, count))

RECURSIVE AI_drop_ranges(_, _, _)
\* buffer.drop_values(range) for every range the scratch bit field yields
AI_drop_ranges(b, ranges, k) ==
    IF k > Len(ranges) THEN b ELSE AI_drop_ranges(AB_drop_values(b, ranges[k]), ranges, k + 1)

RECURSIVE AI_free_ranges(_, _, _)
\* self.allocator.free(range) for every range the scratch bit field yields
AI_free_ranges(a, ranges, k) ==
    IF k > Len(ranges) THEN a ELSE AI_free_ranges(RA_free(a, ranges[k]), ranges, k + 1)

\* the loop of return_slots over the ranges of the scratch bit field bf
AI_return_ranges(ai, bf, ranges) ==
    [ai |-> [ai EXCEPT !.bitfield = bf,
                       !.buffers = [c \in DOMAIN ai.buffers |-> AI_drop_ranges(ai.buffers[c], ranges, 1)],
                       !.allocator = AI_free_ranges(ai.allocator, ranges, 1)],
     fault |-> \E c \in DOMAIN ai.buffers : \E k \in 1..Len(ranges) :
                  ~AB_range_ok(ai.buffers[c], ranges[k])]

\* the scratch bit field of return_slots once the slots are set
AI_slot_bits(ai, slots) == BF_set_batch_unchecked(BF_clear(ai.bitfield), slots, 1)

\* ArchetypeInstance::return_slots: [ai, fault]; fault is an access outside
\* the scratch bit field or outside a column
AI_return_slots(ai, slots) ==
    IF \E k \in 1..Len(slots) : ~BF_in_bounds(ai.bitfield, slots[k])
    THEN [ai |-> ai, fault |-> TRUE]
    ELSE AI_return_ranges(ai, AI_slot_bits(ai, slots), BF_iter_ranges(AI_slot_bits(ai, slots)))

\* ArchetypeInstance::return_slot_no_drop
AI_return_slot_no_drop(ai, slot) == [ai EXCEPT !.allocator = RA_free(ai.allocator, <<slot, slot + 1>>)]

\* ArchetypeInstance::matches_query
AI_matches_query(ai, set) == BF_is_subset_of(set, ai.component_bitfield)

\* ArchetypeInstance::ensure_capacity
AI_ensure_capacity(ai, capacity) ==
    IF ai.allocator.capacity < capacity
    THEN [ai EXCEPT !.bitfield = BF_ensure_capacity(ai.bitfield, capacity),
                    !.allocator = RA_ensure_capacity(ai.allocator, capacity),
                    !.buffers = [c \in DOMAIN ai.buffers |-> AB_ensure_capacity(ai.buffers[c], capacity)]]
    ELSE ai

\* ArchetypeInstance::get_component / get_component_mut: [some, value, fault]
AI_get_component(ai, component, slot) ==
    IF component \notin DOMAIN ai.buffers THEN [some |-> FALSE, value |-> Uninit, fault |-> FALSE]
    ELSE IF ~(slot < Len(ai.buffers[component])) THEN [some |-> TRUE, value |-> Uninit, fault |-> TRUE]
    ELSE [some |-> TRUE, value |-> ai.buffers[component][slot + 1], fault |-> FALSE]

\* copy_components that copies nothing
AI_copy_components_none(src, dst, src_idx, dst_idx) == dst.buffers

\* ArchetypeInstance::copy_components: the buffers of dst afterwards
AI_copy_components(src, dst, src_idx, dst_idx) ==
    [c \in DOMAIN dst.buffers |->
        IF c \in DOMAIN src.buffers
        THEN AB_copy_values(src.buffers[c], dst.buffers[c], <<src_idx, src_idx + 1>>, dst_idx)
        ELSE dst.buffers[c]]

\* the debug_asserts of copy_values along copy_components
AI_copy_ok(src, dst, src_idx, dst_idx) ==
    \A c \in (DOMAIN dst.buffers) \cap (DOMAIN src.buffers) :
        /\ AB_range_ok(src.buffers[c], <<src_idx, src_idx + 1>>)
        /\ dst_idx < AB_capacity(dst.buffers[c])
        /\ 1 <= AB_capacity(dst.buffers[c]) - dst_idx

RECURSIVE Flatten(_, _)
\* ranges.iter().cloned().flatten(): the indices of the ranges, in order
Flatten(ranges, k) ==
    IF k > Len(ranges) THEN <<>>
    ELSE [j \in 1..RLen(ranges[k]) |-> ranges[k][1] + j - 1] \o Flatten(ranges, k + 1)

\* the live slots of an archetype: the indices of its allocator's used ranges
AI_live_slots(ai) == SeqIdx(RA_used_ranges(ai.allocator), 1)

(***************************************************************************)
(* Queries.  QUERY_TO_DATA holds, per EntityQuery index, the include and   *)
(* exclude bit fields that make_bitfield built from the sorted component   *)
(* ids of the two type tuples; () gives EMPTY_BITFIELD.                    *)
(***************************************************************************)
\* the type tuples (Include, Exclude) the program queries with
QueryTypes == <<[include |-> <<1>>, exclude |-> <<>>],
                [include |-> <<1, 33>>, exclude |-> <<>>],
                [include |-> <<1>>, exclude |-> <<33>>]>>

QueryIds == DOMAIN QueryTypes

\* make_bitfield (EMPTY_BITFIELD for the unit tuple)
CS_make_bitfield(components) == AI_component_bits(components, 1, BF_new)

\* get_query_data
QueryData(q) == [include |-> CS_make_bitfield(QueryTypes[q].include),
                 exclude |-> CS_make_bitfield(QueryTypes[q].exclude)]

(***************************************************************************)
(* ArchetypeStore: [bf, vec, map, queries, transitions].  An Archetype     *)
(* handle is its index, vec[index + 1] the instance.  map is the set of    *)
(* its <<key, index>> entries, queries and transitions are functions.      *)
(***************************************************************************)
NoMap == [x \in {} |-> 0]

\* ArchetypeStore::new
AS_new ==
    [bf |-> BF_new,
     vec |-> <<AI_with_capacity(0, <<>>, 0)>>,
     map |-> {<<BF_new, 0>>},
     queries |-> NoMap,
     transitions |-> NoMap]

\* a map lookup that compares the stored words of the keys one by one
AS_map_get_exact(map, bitfield) ==
    IF \E e \in map : e[1] = bitfield
    THEN (CHOOSE e \in map : e[1] = bitfield)[2]
    ELSE -1

\* HashMap<BitField, Archetype>::get: the index stored under an equal key, or -1
AS_map_get(map, bitfield) ==
    IF \E e \in map : BF_eq(e[1], bitfield)
    THEN (CHOOSE e \in map : BF_eq(e[1], bitfield))[2]
    ELSE -1

\* the two tests a query makes on an archetype before listing it
AS_matches(instance, q) ==
    /\ AI_matches_query(instance, QueryData(q).include)
    /\ ~AI_matches_query(instance, QueryData(q).exclude)

\* the scratch bit field of create_archetype_with_capacity once it is filled
AS_scratch(s, components) == AI_component_bits(components, 1, BF_clear(s.bf))

\* create_archetype_with_capacity without the loop over self.queries
AS_create_match_unlisted(s, components, min_capacity, bitfield, found) ==
    IF found # -1
    THEN [s |-> [s EXCEPT !.bf = bitfield,
                          !.vec[found + 1] = AI_ensure_capacity(@, min_capacity)],
          archetype |-> found]
    ELSE [s |-> [s EXCEPT
                   !.bf = bitfield,
                   !.map = @ \cup {<<bitfield, Len(s.vec)>>},
                   !.vec = Append(@, AI_with_capacity(Len(s.vec), components, min_capacity))],
          archetype |-> Len(s.vec)]

\* create_archetype_with_capacity after self.map.get(bitfield) returned found
AS_create_match(s, components, min_capacity, bitfield, found) ==
    IF found # -1
    THEN [s |-> [s EXCEPT !.bf = bitfield,
                          !.vec[found + 1] = AI_ensure_capacity(@, min_capacity)],
          archetype |-> found]
    ELSE [s |-> [s EXCEPT
                   !.bf = bitfield,
                   !.queries = [q \in DOMAIN s.queries |->
                                  IF AS_matches(AI_with_capacity(Len(s.vec), components, min_capacity), q)
                                  THEN Append(s.queries[q], Len(s.vec)) ELSE s.queries[q]],
                   !.map = @ \cup {<<bitfield, Len(s.vec)>>},
                   !.vec = Append(@, AI_with_capacity(Len(s.vec), components, min_capacity))],
          archetype |-> Len(s.vec)]

\* ArchetypeStore::create_archetype_with_capacity: [s, archetype]
AS_create_archetype_with_capacity(s, components, min_capacity) ==
    AS_create_match(s, components, min_capacity, AS_scratch(s, components),
                    AS_map_get(s.map, AS_scratch(s, components)))

\* ArchetypeStore::create_archetype
AS_create_archetype(s, components) == AS_create_archetype_with_capacity(s, components, 0)

\* ArchetypeStore::init_query
AS_init_query(s, q) ==
    [s EXCEPT !.queries =
        (q :> SortedSeq({i \in 0..(Len(s.vec) - 1) : AS_matches(s.vec[i + 1], q)})) @@ s.queries]

\* ArchetypeStore::query: the store afterwards; the iterator walks queries[q]
AS_query(s, q) == IF q \notin DOMAIN s.queries THEN AS_init_query(s, q) ELSE s

\* BitField::copy_from
BF_copy_from(self, other) == other

\* components.remove(components.iter().position(|t| t.id() == component).unwrap())
AS_remove_first(components, component) ==
    [k \in 1..(Len(components) - 1) |->
        IF k < MinOf({j \in 1..Len(components) : components[j] = component})
        THEN components[k] ELSE components[k + 1]]

\* the cache miss of get_archetype_transition once create_archetype returned c
AS_transition_new(key, c) ==
    [some |-> TRUE, s |-> [c.s EXCEPT !.transitions = (key :> c.archetype) @@ @], dst |-> c.archetype]

\* the cache miss of get_archetype_transition after self.map.get(bitfield)
AS_transition_to(s, key, bitfield, found, components) ==
    IF found # -1 THEN [some |-> TRUE, s |-> [s EXCEPT !.bf = bitfield], dst |-> found]
    ELSE AS_transition_new(key, AS_create_archetype([s EXCEPT !.bf = bitfield], components))

\* the target bit field of a transition from src
AS_target(s, src, component, value) ==
    BF_set(BF_copy_from(s.bf, src.component_bitfield), component, value)

\* ArchetypeStore::get_archetype_transition: [some, s, dst]
AS_get_archetype_transition(s, archetype, component, kind) ==
    IF <<archetype, component, kind>> \in DOMAIN s.transitions
    THEN [some |-> TRUE, s |-> s, dst |-> s.transitions[<<archetype, component, kind>>]]
    ELSE IF BF_get(s.vec[archetype + 1].component_bitfield, component) = (kind = "Add")
    THEN [some |-> FALSE, s |-> s, dst |-> archetype]
    ELSE AS_transition_to(s, <<archetype, component, kind>>,
            AS_target(s, s.vec[archetype + 1], component, kind = "Add"),
            AS_map_get(s.map, AS_target(s, s.vec[archetype + 1], component, kind = "Add")),
            IF kind = "Add" THEN Append(s.vec[archetype + 1].components, component)
            ELSE AS_remove_first(s.vec[archetype + 1].components, component))

(***************************************************************************)
(* EntityRegistry: [id, capacity, instances, available_instances,          *)
(* bitfield] beside its ArchetypeStore.  An instance pointer is the        *)
(* position of the instance in the concatenated instance buffers; an       *)
(* Entity handle is [instance, registry_id, version].  Every operation     *)
(* returns [r, s, out, ret, panic]: the registry, the store, the handles   *)
(* or value returned, the boolean returned, and whether the call panicked. *)
(***************************************************************************)
\* EntityInstance::default
EI_default == [slot |-> 0, version |-> 1, archetype |-> 0]

\* EntityRegistry::new; NEXT_ID starts at 1 and fetch_and(1) returns it
ER_new == [id |-> 1, capacity |-> 0, instances |-> <<>>, available_instances |-> <<>>,
           bitfield |-> BF_new]

\* usize::max
Max(a, b) == IF a >= b THEN a ELSE b

\* EntityRegistry::new_instance_buffer
ER_new_instance_buffer(r, size) ==
    [r EXCEPT !.capacity = @ + size,
              !.bitfield = BF_reserve(@, size),
              !.instances = @ \o [k \in 1..size |-> EI_default],
              !.available_instances = @ \o [k \in 1..size |-> r.capacity + k]]

\* Entity::get_instance / get_instance_mut: the handle belongs to this
\* registry and carries the version of its instance
ER_valid(r, entity) ==
    /\ entity.registry_id = r.id
    /\ entity.instance \in 1..Len(r.instances)
    /\ entity.version = r.instances[entity.instance].version

\* the handle of instance p
ER_entity(r, p) == [instance |-> p, registry_id |-> r.id, version |-> r.instances[p].version]

\* a call that panicked: nothing of the program runs afterwards
ER_panic(r, s) == [r |-> r, s |-> s, out |-> <<>>, ret |-> FALSE, panic |-> TRUE]

\* create_entity_from_archetype once the instance p is popped and take_slots returned t
ER_create_place(r, s, archetype, p, t) ==
    [r |-> [r EXCEPT !.available_instances = SubSeq(@, 1, Len(@) - 1),
                     !.instances[p] = [@ EXCEPT !.slot = t.ranges[1][1], !.archetype = archetype]],
     s |-> [s EXCEPT !.vec[archetype + 1] = t.ai],
     out |-> <<ER_entity(r, p)>>,
     ret |-> TRUE,
     panic |-> t.fault]

\* create_entity_from_archetype on a registry that has an available instance
ER_create_one(r, s, archetype) ==
    ER_create_place(r, s, archetype, r.available_instances[Len(r.available_instances)],
                    AI_take_slots(s.vec[archetype + 1], 1))

\* EntityRegistry::create_entity_from_archetype
ER_create_entity_from_archetype(r, s, archetype) ==
    ER_create_one(IF r.available_instances = <<>>
                  THEN ER_new_instance_buffer(r, Max(16, r.capacity)) ELSE r,
                  s, archetype)

\* the loop of create_entities_from_archetype: instances are the last count
\* available instances, flat the slots take_slots returned, flattened
ER_create_fill(r, s, archetype, count, start, t, flat) ==
    IF \E i \in 1..count : ~(flat[i] < Len(t.ai.entities)) THEN ER_panic(r, s)
    ELSE [r |-> [r EXCEPT
                   !.available_instances = SubSeq(@, 1, start),
                   !.instances = [p \in 1..Len(r.instances) |->
                       IF \E i \in 1..count : r.available_instances[start + i] = p
                       THEN [r.instances[p] EXCEPT
                               !.slot = flat[CHOOSE i \in 1..count : r.available_instances[start + i] = p],
                               !.archetype = archetype]
                       ELSE r.instances[p]]],
          s |-> [s EXCEPT !.vec[archetype + 1] =
                   [t.ai EXCEPT !.entities = [k \in 1..Len(t.ai.entities) |->
                       IF \E i \in 1..count : flat[i] = k - 1
                       THEN ER_entity(r, r.available_instances[start + (CHOOSE i \in 1..count : flat[i] = k - 1)])
                       ELSE t.ai.entities[k]]]],
          out |-> [i \in 1..count |-> ER_entity(r, r.available_instances[start + i])],
          ret |-> TRUE,
          panic |-> t.fault]

\* create_entities_from_archetype on a registry with count available instances
ER_create_many(r, s, archetype, count, t) ==
    ER_create_fill(r, s, archetype, count, Len(r.available_instances) - count, t, Flatten(t.ranges, 1))

\* EntityRegistry::create_entities_from_archetype
ER_create_entities_from_archetype(r, s, archetype, count) ==
    ER_create_many(IF Len(r.available_instances) < count
                   THEN ER_new_instance_buffer(r, Max(count - Len(r.available_instances), r.capacity))
                   ELSE r,
                   s, archetype, count, AI_take_slots(s.vec[archetype + 1], count))

\* return_slots(&slots) on archetype last, as destroy_entities calls it
ER_flush(r, s, last, t) ==
    [r |-> [r EXCEPT !.bitfield = BF_clear(@)], s |-> [s EXCEPT !.vec[last + 1] = t.ai],
     slots |-> <<>>, last |-> last, fault |-> t.fault]

\* the head of the loop body of destroy_entities for an instance of archetype
ER_destroy_flush(r, s, slots, last, archetype) ==
    IF archetype # last /\ slots # <<>>
    THEN ER_flush(r, s, last, AI_return_slots(s.vec[last + 1], slots))
    ELSE [r |-> r, s |-> s, slots |-> slots, last |-> last, fault |-> FALSE]

RECURSIVE ER_destroy_loop(_, _, _, _, _, _)
RECURSIVE ER_destroy_mark(_, _, _, _)
\* the tail of the loop body of destroy_entities for instance p, then the
\* rest of the loop
ER_destroy_mark(w, entities, k, p) ==
    IF w.fault \/ ~BF_in_bounds(w.r.bitfield, w.r.instances[p].slot) THEN ER_panic(w.r, w.s)
    ELSE IF ~BF_get(w.r.bitfield, w.r.instances[p].slot)
    THEN ER_destroy_loop([w.r EXCEPT !.instances[p].version = @ + 1,
                                     !.bitfield = BF_set_unchecked(@, w.r.instances[p].slot, TRUE)],
                         w.s, entities, k + 1, Append(w.slots, w.r.instances[p].slot),
                         w.r.instances[p].archetype)
    ELSE ER_destroy_loop(w.r, w.s, entities, k + 1, w.slots, w.last)

\* the closing return_slots of destroy_entities
ER_destroy_end(r, s, last, t) ==
    [r |-> r, s |-> [s EXCEPT !.vec[last + 1] = t.ai], out |-> <<>>, ret |-> TRUE, panic |-> t.fault]

\* the loop of destroy_entities from position k of entities
ER_destroy_loop(r, s, entities, k, slots, last) ==
    IF k > Len(entities)
    THEN IF slots # <<>> THEN ER_destroy_end(r, s, last, AI_return_slots(s.vec[last + 1], slots))
         ELSE [r |-> r, s |-> s, out |-> <<>>, ret |-> TRUE, panic |-> FALSE]
    ELSE IF ~ER_valid(r, entities[k]) THEN ER_panic(r, s)
    ELSE ER_destroy_mark(ER_destroy_flush(r, s, slots, last, r.instances[entities[k].instance].archetype),
                         entities, k, entities[k].instance)

\* EntityRegistry::destroy_entities
ER_destroy_entities(r, s, entities) ==
    ER_destroy_loop([r EXCEPT !.bitfield = BF_clear(@)], s, entities, 1, <<>>, 0)

\* EntityRegistry::get_component: [some, value, panic]
ER_get_component(r, s, entity, component) ==
    IF ~ER_valid(r, entity) THEN [some |-> FALSE, value |-> Uninit, panic |-> TRUE]
    ELSE [some |-> AI_get_component(s.vec[r.instances[entity.instance].archetype + 1], component,
                                    r.instances[entity.instance].slot).some,
          value |-> AI_get_component(s.vec[r.instances[entity.instance].archetype + 1], component,
                                     r.instances[entity.instance].slot).value,
          panic |-> AI_get_component(s.vec[r.instances[entity.instance].archetype + 1], component,
                                     r.instances[entity.instance].slot).fault]

\* no transition: apply_archetype_transition returned None
ER_no_move(r, s) ==
    [some |-> FALSE, r |-> r, s |-> s, src |-> 0, src_slot |-> 0, dst |-> 0, dst_slot |-> 0,
     panic |-> FALSE]

\* the archetype vector after copy_components and return_slot_no_drop; vec
\* already holds the destination with its new slot taken.  src and dst are
\* indices into the same vector, and may be the same index.
ER_move_vec(vec, src, src_slot, dst, dst_slot) ==
    [[vec EXCEPT ![dst + 1].buffers = AI_copy_components(vec[src + 1], vec[dst + 1], src_slot, dst_slot)]
        EXCEPT ![src + 1] = AI_return_slot_no_drop(@, src_slot)]

\* apply_archetype_transition that places the entity at slot 0 of dst
\* whatever take_slots_no_init returned
ER_apply_move_to_first(r, s, p, src, dst, t) ==
    [some |-> TRUE,
     r |-> [r EXCEPT !.instances[p] = [@ EXCEPT !.archetype = dst, !.slot = 0]],
     s |-> [s EXCEPT !.vec = ER_move_vec([s.vec EXCEPT ![dst + 1] = t.ai], src,
                                         r.instances[p].slot, dst, 0)],
     src |-> src, src_slot |-> r.instances[p].slot, dst |-> dst, dst_slot |-> 0,
     panic |-> ~AI_copy_ok(IF src = dst THEN t.ai ELSE s.vec[src + 1], t.ai,
                           r.instances[p].slot, 0)]

\* apply_archetype_transition from instance.archetype = dst on: t is what
\* dst.take_slots_no_init(1) did
ER_apply_move(r, s, p, src, dst, t) ==
    [some |-> TRUE,
     r |-> [r EXCEPT !.instances[p] = [@ EXCEPT !.archetype = dst, !.slot = t.ranges[1][1]]],
     s |-> [s EXCEPT !.vec = ER_move_vec([s.vec EXCEPT ![dst + 1] = t.ai], src,
                                         r.instances[p].slot, dst, t.ranges[1][1])],
     src |-> src, src_slot |-> r.instances[p].slot, dst |-> dst, dst_slot |-> t.ranges[1][1],
     panic |-> ~AI_copy_ok(IF src = dst THEN t.ai ELSE s.vec[src + 1], t.ai,
                           r.instances[p].slot, t.ranges[1][1])]

\* apply_archetype_transition on the result tr of get_archetype_transition
ER_apply_match(r, p, tr) ==
    IF ~tr.some THEN ER_no_move(r, tr.s)
    ELSE ER_apply_move(r, tr.s, p, r.instances[p].archetype, tr.dst,
                       AI_take_slots_no_init(tr.s.vec[tr.dst + 1], 1))

\* EntityRegistry::apply_archetype_transition:
\* [some, r, s, src, src_slot, dst, dst_slot, panic]
ER_apply_archetype_transition(r, s, entity, component, kind) ==
    IF ~ER_valid(r, entity) THEN [ER_no_move(r, s) EXCEPT !.panic = TRUE]
    ELSE ER_apply_match(r, entity.instance,
            AS_get_archetype_transition(s, r.instances[entity.instance].archetype, component, kind))

\* add_component that reports true whatever the transition was
ER_add_write_true(tr, component, value) ==
    IF tr.panic THEN ER_panic(tr.r, tr.s)
    ELSE [r |-> tr.r, s |-> tr.s, out |-> <<>>, ret |-> TRUE, panic |-> FALSE]

\* add_component on the result of apply_archetype_transition: ptr::write of
\* value at dst.get_component_mut(slot).unwrap()
ER_add_write(tr, component, value) ==
    IF tr.panic THEN ER_panic(tr.r, tr.s)
    ELSE IF ~tr.some THEN [r |-> tr.r, s |-> tr.s, out |-> <<>>, ret |-> FALSE, panic |-> FALSE]
    ELSE IF \/ component \notin DOMAIN tr.s.vec[tr.dst + 1].buffers
            \/ ~(tr.dst_slot < AB_capacity(tr.s.vec[tr.dst + 1].buffers[component]))
    THEN ER_panic(tr.r, tr.s)
    ELSE [r |-> tr.r,
          s |-> [tr.s EXCEPT !.vec[tr.dst + 1].buffers[component][tr.dst_slot + 1] = value],
          out |-> <<>>, ret |-> TRUE, panic |-> FALSE]

\* EntityRegistry::add_component
ER_add_component(r, s, entity, component, value) ==
    ER_add_write(ER_apply_archetype_transition(r, s, entity, component, "Add"), component, value)

\* remove_component on the result of apply_archetype_transition:
\* ptr::drop_in_place of src.get_component_mut::<T>(slot).unwrap()
ER_remove_drop(tr, component) ==
    IF tr.panic THEN ER_panic(tr.r, tr.s)
    ELSE IF ~tr.some THEN [r |-> tr.r, s |-> tr.s, out |-> <<>>, ret |-> FALSE, panic |-> FALSE]
    ELSE IF \/ component \notin DOMAIN tr.s.vec[tr.src + 1].buffers
            \/ ~(tr.src_slot < AB_capacity(tr.s.vec[tr.src + 1].buffers[component]))
    THEN ER_panic(tr.r, tr.s)
    ELSE [r |-> tr.r,
          s |-> [tr.s EXCEPT !.vec[tr.src + 1].buffers[component][tr.src_slot + 1] = Dropped],
          out |-> <<>>, ret |-> TRUE, panic |-> FALSE]

\* EntityRegistry::remove_component
ER_remove_component(r, s, entity, component) ==
    ER_remove_drop(ER_apply_archetype_transition(r, s, entity, component, "Remove"), component)

\* IterArchetype::for_each on archetype a for the include tuple: the slots
\* handed to func, in order, as <<a, slot>>
IA_for_each(s, a) == [j \in 1..Len(Flatten(RA_used_ranges(s.vec[a + 1].allocator), 1)) |->
                        <<a, Flatten(RA_used_ranges(s.vec[a + 1].allocator), 1)[j]>>]

\* the unwrap of self.buffers.get_mut(TypeId::of::<T>()) for every T of the tuple
IA_has_columns(s, a, include) ==
    \A k \in 1..Len(include) : include[k] \in DOMAIN s.vec[a + 1].buffers

RECURSIVE ER_for_each_from(_, _, _, _)
\* the loop of EntityFilter::for_each over the archetypes list[k..] of the
\* query: [out, panic]
ER_for_each_from(s, list, k, include) ==
    IF k > Len(list) THEN [out |-> <<>>, panic |-> FALSE]
    ELSE IF ~IA_has_columns(s, list[k], include) THEN [out |-> <<>>, panic |-> TRUE]
    ELSE [out |-> IA_for_each(s, list[k]) \o ER_for_each_from(s, list, k + 1, include).out,
          panic |-> ER_for_each_from(s, list, k + 1, include).panic]

\* EntityFilter::for_each on the store that query(q) left: [out, panic]
ER_for_each(s, q) == ER_for_each_from(s, s.queries[q], 1, QueryTypes[q].include)

(***************************************************************************)
(* EntityStore: [allocator, instances, bitfield] beside its ArchetypeStore.*)
(* An Entity handle is [index, version]; instances[index + 1] is the       *)
(* [slot, version, archetype] of EntityInstanceVec at index.  Every        *)
(* operation returns [es, s, out, ret, panic].                             *)
(***************************************************************************)
\* EntityStore::new
ES_new == [allocator |-> RA_new, instances |-> <<>>, bitfield |-> BF_new]

\* EntityStore::reserve_entity_space with EntityInstanceVec::reserve
ES_reserve_entity_space(es, size) ==
    [es EXCEPT !.allocator = RA_reserve(@, size),
               !.bitfield = BF_reserve(@, size),
               !.instances = @ \o [k \in 1..size |-> EI_default]]

\* a call that panicked
ES_panic(es, s) == [es |-> es, s |-> s, out |-> <<>>, ret |-> FALSE, panic |-> TRUE]

\* create_entity_from_archetype from self.instances.get_mut(index) on; t is
\* what take_slots(1) did
ES_create_place(es, s, archetype, index, t) ==
    IF ~(index < Len(es.instances)) \/ t.fault THEN ES_panic(es, s)
    ELSE [es |-> [es EXCEPT !.instances[index + 1] =
                      [@ EXCEPT !.slot = t.ranges[1][1], !.archetype = archetype]],
          s |-> [s EXCEPT !.vec[archetype + 1] = t.ai],
          out |-> <<[index |-> index, version |-> es.instances[index + 1].version]>>,
          ret |-> TRUE,
          panic |-> FALSE]

\* the Err arm of create_entity_from_archetype: al is what allocate(1) did
\* on the store es with its space reserved
ES_create_grown(es, s, archetype, al) ==
    IF al.panic THEN ES_panic(es, s)
    ELSE ES_create_place([es EXCEPT !.allocator = al.a], s, archetype, al.range[1],
                         AI_take_slots(s.vec[archetype + 1], 1))

\* the Err arm of create_entity_from_archetype on the store with its space reserved
ES_create_grow(es, s, archetype, bld) ==
    ES_create_grown(es, s, archetype, RA_allocate(es.allocator, 1, bld))

\* create_entity_from_archetype on the result t of try_allocate(1)
ES_create_match(es, s, archetype, bld, t) ==
    IF t.ok
    THEN ES_create_place([es EXCEPT !.allocator = t.a], s, archetype, t.range[1],
                         AI_take_slots(s.vec[archetype + 1], 1))
    ELSE ES_create_grow(ES_reserve_entity_space(es, Max(1, es.allocator.capacity)), s, archetype, bld)

\* EntityStore::create_entity_from_archetype
ES_create_entity_from_archetype(es, s, archetype, bld) ==
    ES_create_match(es, s, archetype, bld, RA_try_allocate(es.allocator, 1))

\* usize::min
Min(a, b) == IF a <= b THEN a ELSE b

\* the zip loop of create_entities_from_archetype over the flattened
\* instance ranges and slot ranges; n is the length of the zip
ES_create_zip(es, s, archetype, count, instances, t, slots, n) ==
    IF t.fault \/ \E k \in 1..n : ~(instances[k] < Len(es.instances)) THEN ES_panic(es, s)
    ELSE [es |-> [es EXCEPT !.instances = [p \in 1..Len(es.instances) |->
                      IF \E k \in 1..n : instances[k] = p - 1
                      THEN [es.instances[p] EXCEPT
                              !.slot = slots[CHOOSE k \in 1..n : instances[k] = p - 1],
                              !.archetype = archetype]
                      ELSE es.instances[p]]],
          s |-> [s EXCEPT !.vec[archetype + 1] = t.ai],
          out |-> [e \in 1..count |->
                      IF e <= n
                      THEN [index |-> instances[e], version |-> es.instances[instances[e] + 1].version]
                      ELSE [index |-> 0, version |-> 0]],
          ret |-> TRUE,
          panic |-> FALSE]

\* create_entities_from_archetype once instance_ranges is filled: f is
\* [a, out] of the allocator
ES_create_fill(es, s, archetype, count, f, t) ==
    ES_create_zip([es EXCEPT !.allocator = f.a], s, archetype, count, Flatten(f.out, 1), t,
                  Flatten(t.ranges, 1),
                  Min(Min(Len(Flatten(f.out, 1)), count), Len(Flatten(t.ranges, 1))))

\* the Err(needed) arm of create_entities_from_archetype on the store with
\* its space reserved
ES_create_many_grow(es, s, archetype, count) ==
    ES_create_fill(es, s, archetype, count, RA_allocate_fragmented(es.allocator, count, <<>>),
                   AI_take_slots(s.vec[archetype + 1], count))

\* create_entities_from_archetype on the result f of try_allocate_fragmented
ES_create_many_match(es, s, archetype, count, f) ==
    IF f.ok THEN ES_create_fill(es, s, archetype, count, f, AI_take_slots(s.vec[archetype + 1], count))
    ELSE ES_create_many_grow(
            ES_reserve_entity_space(es, Max(es.allocator.capacity * 2, f.err) - es.allocator.capacity),
            s, archetype, count)

\* EntityStore::create_entities_from_archetype
ES_create_entities_from_archetype(es, s, archetype, count) ==
    ES_create_many_match(es, s, archetype, count,
                         RA_try_allocate_fragmented(es.allocator, count, <<>>))

\* assert_entity / assert_entity_version without debug_only_assertions
EI_assert_entity_version(entity, instance) == entity = instance

RECURSIVE ES_free_unbumped(_, _, _)
\* the closing loop of destroy_entities without versions[i] += 1
ES_free_unbumped(es, ranges, k) ==
    IF k > Len(ranges) THEN es
    ELSE ES_free_unbumped([es EXCEPT !.allocator = RA_free(@, ranges[k])], ranges, k + 1)

RECURSIVE ES_bump_versions(_, _, _)
\* the closing loop of destroy_entities over self.bitfield.iter_ranges():
\* versions[i] += 1 for every i of the range, then allocator.free(range)
\* (a u32 that MaxStoreCalls calls cannot wrap)
ES_bump_versions(es, ranges, k) ==
    IF k > Len(ranges) THEN es
    ELSE ES_bump_versions(
            [es EXCEPT !.instances = [p \in 1..Len(es.instances) |->
                           IF p - 1 \in RIdx(ranges[k])
                           THEN [es.instances[p] EXCEPT !.version = @ + 1]
                           ELSE es.instances[p]],
                       !.allocator = RA_free(@, ranges[k])],
            ranges, k + 1)

\* destroy_entities after its loop over entities: t is what the closing
\* return_slots did
ES_destroy_end(es, s, last_archetype, t) ==
    IF t.fault THEN ES_panic(es, s)
    ELSE [es |-> ES_bump_versions(es, BF_iter_ranges(es.bitfield), 1),
          s |-> [s EXCEPT !.vec[last_archetype + 1] = t.ai],
          out |-> <<>>, ret |-> TRUE, panic |-> FALSE]

\* return_slots(slots) on last_archetype inside the loop of destroy_entities
ES_flush(es, s, last_archetype, t) ==
    [es |-> es, s |-> [s EXCEPT !.vec[last_archetype + 1] = t.ai], slots |-> <<>>, fault |-> t.fault]

\* the archetype change test in the loop body of destroy_entities
ES_destroy_flush(es, s, slots, last_archetype, archetype) ==
    IF archetype # last_archetype /\ slots # <<>>
    THEN ES_flush(es, s, last_archetype, AI_return_slots(s.vec[last_archetype + 1], slots))
    ELSE [es |-> es, s |-> s, slots |-> slots, fault |-> FALSE]

RECURSIVE ES_destroy_loop(_, _, _, _, _, _)
\* the loop body of destroy_entities after the archetype change test w
ES_destroy_push(w, entities, k, index) ==
    IF w.fault THEN ES_panic(w.es, w.s)
    ELSE ES_destroy_loop(w.es, w.s, entities, k + 1,
                         Append(w.slots, w.es.instances[index + 1].slot),
                         w.es.instances[index + 1].archetype)

\* the loop of destroy_entities from position k of entities
ES_destroy_loop(es, s, entities, k, slots, last_archetype) ==
    IF k > Len(entities)
    THEN IF slots # <<>>
         THEN ES_destroy_end(es, s, last_archetype, AI_return_slots(s.vec[last_archetype + 1], slots))
         ELSE ES_destroy_end(es, s, last_archetype, [ai |-> s.vec[last_archetype + 1], fault |-> FALSE])
    ELSE IF \/ ~(entities[k].index < Len(es.instances))
            \/ ~EI_assert_entity_version(entities[k].version, es.instances[entities[k].index + 1].version)
            \/ ~BF_in_bounds(es.bitfield, entities[k].index)
    THEN ES_panic(es, s)
    ELSE ES_destroy_push(
            ES_destroy_flush([es EXCEPT !.bitfield = BF_set_unchecked(@, entities[k].index, TRUE)],
                             s, slots, last_archetype, es.instances[entities[k].index + 1].archetype),
            entities, k, entities[k].index)

\* EntityStore::destroy_entities
ES_destroy_entities(es, s, entities) ==
    ES_destroy_loop([es EXCEPT !.bitfield = BF_clear(@)], s, entities, 1, <<>>, 0)

\* the access of get_component to the column of the entity's archetype
ES_get_column(g) == [some |-> g.some, value |-> g.value, panic |-> g.fault]

\* EntityStore::get_component: [some, value, panic]
ES_get_component(es, s, entity, component) ==
    IF \/ ~(entity.index < Len(es.instances))
       \/ ~EI_assert_entity_version(entity.version, es.instances[entity.index + 1].version)
    THEN [some |-> FALSE, value |-> Uninit, panic |-> TRUE]
    ELSE ES_get_column(AI_get_component(s.vec[es.instances[entity.index + 1].archetype + 1],
                                        component, es.instances[entity.index + 1].slot))

(***************************************************************************)
(* The RangeAllocator driven through its public functions                  *)
(***************************************************************************)
NoRes == [op |-> "none", arg |-> <<0, 0>>, ok |-> TRUE, out |-> <<>>, err |-> 0, panic |-> FALSE]

\* a panic ends the program: no call follows it
Running == res.panic = FALSE

RAInit ==
    /\ build \in Builds
    /\ \E c \in 0..MaxInitCap : alloc = RA_with_capacity(c)
    /\ live = {}
    /\ res = NoRes
    /\ full = -1
    /\ arch = Idle /\ store = Idle /\ reg = Idle /\ ents = Idle /\ par = Idle /\ estore = Idle /\ calls = Idle /\ dead = Idle /\ bits = Idle /\ sys = Idle /\ statics = Idle

\* allocate(n) while capacity stays within cap
AllocateWithin(n, cap) ==
    /\ Running
    /\ alloc.capacity + n <= cap
    /\ \E r \in {RA_allocate(alloc, n, build)} :
       /\ alloc' = r.a
       /\ live' = IF r.panic THEN live ELSE live \cup RIdx(r.range)
       /\ res' = [op |-> "allocate", arg |-> <<n, 0>>, ok |-> ~r.panic,
                  out |-> IF r.panic THEN <<>> ELSE <<r.range>>, err |-> 0, panic |-> r.panic]
    /\ UNCHANGED <<build, full, ecsVars>>

Allocate(n) == AllocateWithin(n, MaxCap)

TryAllocate(n) ==
    /\ Running
    /\ \E r \in {RA_try_allocate(alloc, n)} :
       /\ alloc' = r.a
       /\ live' = IF r.ok THEN live \cup RIdx(r.range) ELSE live
       /\ res' = [op |-> "try_allocate", arg |-> <<n, 0>>, ok |-> r.ok,
                  out |-> IF r.ok THEN <<r.range>> ELSE <<>>, err |-> r.err,
                  panic |-> r.underflow /\ build = "debug"]
    /\ UNCHANGED <<build, full, ecsVars>>

\* allocate_fragmented(n, out) on an empty out while capacity stays within cap
AllocateFragmentedWithin(n, cap) ==
    /\ Running
    /\ alloc.capacity + n <= cap
    /\ \E r \in {RA_allocate_fragmented(alloc, n, <<>>)} :
       /\ alloc' = r.a
       /\ live' = live \cup SeqIdx(r.out, 1)
       /\ res' = [op |-> "allocate_fragmented", arg |-> <<n, 0>>, ok |-> TRUE,
                  out |-> r.out, err |-> 0, panic |-> FALSE]
    /\ UNCHANGED <<build, full, ecsVars>>

AllocateFragmented(n) == AllocateFragmentedWithin(n, MaxCap)

TryAllocateFragmented(n) ==
    /\ Running
    /\ \E r \in {RA_try_allocate_fragmented(alloc, n, <<>>)} :
       /\ alloc' = r.a
       /\ live' = IF r.ok THEN live \cup SeqIdx(r.out, 1) ELSE live
       /\ res' = [op |-> "try_allocate_fragmented", arg |-> <<n, 0>>, ok |-> r.ok,
                  out |-> r.out, err |-> r.err, panic |-> FALSE]
    /\ UNCHANGED <<build, full, ecsVars>>

\* free of a range all of whose indices are allocated
Free(s, e) ==
    /\ Running
    /\ s < e
    /\ RIdx(<<s, e>>) \subseteq live
    /\ alloc' = RA_free(alloc, <<s, e>>)
    /\ live' = live \ RIdx(<<s, e>>)
    /\ res' = [op |-> "free", arg |-> <<s, e>>, ok |-> TRUE, out |-> <<>>, err |-> 0, panic |-> FALSE]
    /\ UNCHANGED <<build, full, ecsVars>>

Reserve(n) ==
    /\ Running
    /\ alloc.capacity + n <= MaxCap
    /\ alloc' = RA_reserve(alloc, n)
    /\ res' = [op |-> "reserve", arg |-> <<n, 0>>, ok |-> TRUE, out |-> <<>>, err |-> 0, panic |-> FALSE]
    /\ UNCHANGED <<build, live, full, ecsVars>>

EnsureCapacity(c) ==
    /\ Running
    /\ alloc' = RA_ensure_capacity(alloc, c)
    /\ res' = [op |-> "ensure_capacity", arg |-> <<c, 0>>, ok |-> TRUE, out |-> <<>>, err |-> 0, panic |-> FALSE]
    /\ UNCHANGED <<build, live, full, ecsVars>>

RANext ==
    \/ \E n \in 0..MaxCap : Allocate(n)
    \/ \E n \in 0..MaxCap : TryAllocate(n)
    \/ \E n \in 0..MaxCap : AllocateFragmented(n)
    \/ \E n \in 0..MaxCap : TryAllocateFragmented(n)
    \/ \E s \in 0..MaxCap, e \in 0..MaxCap : Free(s, e)
    \/ \E n \in 0..MaxCap : Reserve(n)
    \/ \E c \in 0..MaxCap : EnsureCapacity(c)

SpecRA == RAInit /\ [][RANext]_vars

(***************************************************************************)
(* Freeing a fully allocated interval block by block                       *)
(* (tests/range_allocator_tests.rs, fragmented_deallocation)               *)
(***************************************************************************)
\* allocator.allocate(N) on RangeAllocator::new(): [0, N) is entirely allocated
PartitionInit ==
    /\ build \in Builds
    /\ \E n \in 1..MaxN :
          /\ alloc = RA_allocate(RA_new, n, build).a
          /\ live = RIdx(RA_allocate(RA_new, n, build).range)
          /\ full = n
    /\ res = NoRes
    /\ arch = Idle /\ store = Idle /\ reg = Idle /\ ents = Idle /\ par = Idle /\ estore = Idle /\ calls = Idle /\ dead = Idle /\ bits = Idle /\ sys = Idle /\ statics = Idle

\* allocator.free(block) for the next block of the partition: any contiguous
\* range of indices that are still allocated
FreeBlock(s, e) ==
    /\ s < e
    /\ RIdx(<<s, e>>) \subseteq live
    /\ alloc' = RA_free(alloc, <<s, e>>)
    /\ live' = live \ RIdx(<<s, e>>)
    /\ res' = [op |-> "free", arg |-> <<s, e>>, ok |-> TRUE, out |-> <<>>, err |-> 0, panic |-> FALSE]
    /\ UNCHANGED <<build, full, ecsVars>>

PartitionNext == \E s \in 0..MaxN, e \in 0..MaxN : FreeBlock(s, e)

SpecPartition == PartitionInit /\ [][PartitionNext]_vars

(***************************************************************************)
(* Allocating again from a fully allocated interval that is being freed    *)
(* block by block: allocate and allocate_fragmented on fragmented free     *)
(* space                                                                   *)
(***************************************************************************)
MaxChurnCap == 7    \* RangeAllocator capacity explored
MaxChurn == 3       \* sizes handed to allocate and allocate_fragmented

ChurnNext ==
    \/ \E s \in 0..MaxChurnCap, e \in 0..MaxChurnCap : Running /\ e <= s + 2 /\ FreeBlock(s, e)
    \/ \E n \in 1..MaxChurn : AllocateWithin(n, MaxChurnCap)
    \/ \E n \in 1..MaxChurn : AllocateFragmentedWithin(n, MaxChurnCap)

SpecChurn == PartitionInit /\ [][ChurnNext]_vars

(***************************************************************************)
(* One ArchetypeInstance driven through with_capacity, take_slots,         *)
(* take_slots_no_init, return_slots and ensure_capacity                    *)
(***************************************************************************)
MaxArchCap == 3     \* slot capacity explored for the archetype under test
MaxSlotList == 2    \* length of the slot lists handed to return_slots

\* component lists an archetype is constructed from: none, one, two in
\* different bit-field words, one repeated
ArchComponentLists == {<<>>, <<1>>, <<1, 33>>, <<1, 1>>}

\* slot lists of at most MaxSlotList live slots, repeats allowed
SlotLists(S) == UNION {[1..n -> S] : n \in 1..MaxSlotList}

ArchInit ==
    /\ build = "debug"
    /\ \E cs \in ArchComponentLists, c \in 0..MaxInitCap : arch = AI_with_capacity(0, cs, c)
    /\ res = NoRes
    /\ alloc = Idle /\ live = Idle /\ full = Idle
    /\ store = Idle /\ reg = Idle /\ ents = Idle /\ par = Idle /\ estore = Idle /\ calls = Idle /\ dead = Idle /\ bits = Idle /\ sys = Idle /\ statics = Idle

ArchRest == <<build, alloc, live, full, store, reg, ents, par, estore, calls, dead, bits, sys, statics>>

ArchTakeSlots(n) ==
    /\ Running
    /\ arch.allocator.used + n <= MaxArchCap
    /\ \E t \in {AI_take_slots(arch, n)} :
       /\ arch' = t.ai
       /\ res' = [op |-> "take_slots", arg |-> <<n, 0>>, ok |-> TRUE, out |-> t.ranges,
                  err |-> 0, panic |-> t.fault]
    /\ UNCHANGED ArchRest

ArchTakeSlotsNoInit(n) ==
    /\ Running
    /\ arch.allocator.used + n <= MaxArchCap
    /\ \E t \in {AI_take_slots_no_init(arch, n)} :
       /\ arch' = t.ai
       /\ res' = [op |-> "take_slots_no_init", arg |-> <<n, 0>>, ok |-> TRUE, out |-> t.ranges,
                  err |-> 0, panic |-> FALSE]
    /\ UNCHANGED ArchRest

\* return_slots of slots that are allocated
ArchReturnSlots(slots) ==
    /\ Running
    /\ \E t \in {AI_return_slots(arch, slots)} :
       /\ arch' = t.ai
       /\ res' = [op |-> "return_slots", arg |-> <<Len(slots), 0>>, ok |-> TRUE, out |-> <<>>,
                  err |-> 0, panic |-> t.fault]
    /\ UNCHANGED ArchRest

ArchEnsureCapacity(c) ==
    /\ Running
    /\ arch' = AI_ensure_capacity(arch, c)
    /\ res' = [op |-> "ensure_capacity", arg |-> <<c, 0>>, ok |-> TRUE, out |-> <<>>,
               err |-> 0, panic |-> FALSE]
    /\ UNCHANGED ArchRest

ArchNext ==
    \/ \E n \in 0..MaxArchCap : ArchTakeSlots(n)
    \/ \E n \in 0..MaxArchCap : ArchTakeSlotsNoInit(n)
    \/ \E slots \in SlotLists(AI_live_slots(arch)) : ArchReturnSlots(slots)
    \/ \E c \in 0..MaxArchCap : ArchEnsureCapacity(c)

SpecArch == ArchInit /\ [][ArchNext]_vars

(***************************************************************************)
(* An EntityRegistry with its ArchetypeStore driven through create_*,      *)
(* destroy_entities, add_component, remove_component, for_each and         *)
(* par_for_each                                                            *)
(***************************************************************************)
MaxEntities == 2    \* handles the creation calls return in one run
MaxCalls == 5       \* calls made on the registry in one run
MaxDestroy == 2     \* length of the list handed to destroy_entities
Workers == {1, 2}   \* threads of the pool par_for_each dispatches to

\* component ids in use: one in bit-field word 0, one in word 1
Comps == {1, 33}
\* values written by add_component
Values == {"a", "b"}
\* component lists handed to create_archetype: the last repeats a type
RegComponentLists == {<<1>>, <<1, 33>>, <<1, 33, 33>>}
\* min_capacity arguments of create_archetype_with_capacity
MinCapacities == {0, 2}

\* what an entity looks like before a call: its archetype, slot and components
NoPre == [archetype |-> -1, slot |-> -1, vals |-> NoMap]
ER_snapshot(r, s, e) ==
    IF ~ER_valid(r, e) THEN NoPre
    ELSE [archetype |-> r.instances[e.instance].archetype,
          slot |-> r.instances[e.instance].slot,
          vals |-> [c \in DOMAIN s.vec[r.instances[e.instance].archetype + 1].buffers |->
                      ER_get_component(r, s, e, c).value]]

NoTrip == [some |-> FALSE, pre |-> NoPre]
RegRes(op, e, c, x) ==
    [op |-> op, e |-> e, c |-> c, ret |-> x.ret, out |-> x.out, panic |-> x.panic,
     pre |-> NoPre, trip |-> NoTrip]

ParIdle == [active |-> FALSE, q |-> 0, archs |-> <<>>, items |-> <<>>, todo |-> {},
            held |-> [w \in Workers |-> 0], visited |-> EmptyBag]

\* no par_for_each is running: the registry is not borrowed
Quiet == Running /\ ~par.active

RegInit ==
    /\ build = "debug"
    /\ reg = ER_new
    /\ store = AS_new
    /\ ents = {}
    /\ par = ParIdle
    /\ res = RegRes("new", UninitEntity, 0, [ret |-> TRUE, out |-> <<>>, panic |-> FALSE])
    /\ calls = 0
    /\ alloc = Idle /\ live = Idle /\ full = Idle /\ arch = Idle /\ estore = Idle /\ dead = Idle /\ bits = Idle /\ sys = Idle /\ statics = Idle

RegRest == <<build, alloc, live, full, arch, estore, dead, bits, sys, statics>>

\* ArchetypeStore::create_archetype_with_capacity through EcsContext
RegCreateArchetype(cs, cap) ==
    /\ Quiet
    /\ \E c \in {AS_create_archetype_with_capacity(store, cs, cap)} :
          /\ store' = c.s
          /\ res' = RegRes("create_archetype", UninitEntity, 0,
                           [ret |-> TRUE, out |-> <<c.archetype>>, panic |-> FALSE])
    /\ calls' = calls + 1
    /\ UNCHANGED <<reg, ents, par, RegRest>>

\* what a registry call x leaves behind
RegDone(x, op, e, c) ==
    /\ reg' = x.r
    /\ store' = x.s
    /\ res' = RegRes(op, e, c, x)
    /\ calls' = calls + 1
    /\ UNCHANGED <<par, RegRest>>

RegCreateEntity(a) ==
    /\ Quiet
    /\ Cardinality(ents) < MaxEntities
    /\ \E x \in {ER_create_entity_from_archetype(reg, store, a)} :
          /\ RegDone(x, "create_entity", UninitEntity, 0)
          /\ ents' = IF x.panic THEN ents ELSE ents \cup {x.out[1]}

RegCreateEntities(a, n) ==
    /\ Quiet
    /\ Cardinality(ents) + n <= MaxEntities
    /\ \E x \in {ER_create_entities_from_archetype(reg, store, a, n)} :
          /\ RegDone(x, "create_entities", UninitEntity, 0)
          /\ ents' = IF x.panic THEN ents ELSE ents \cup {x.out[i] : i \in 1..n}

RegDestroyEntities(es) ==
    /\ Quiet
    /\ \E x \in {ER_destroy_entities(reg, store, es)} : RegDone(x, "destroy_entities", es[1], 0)
    /\ UNCHANGED ents

RegAddComponent(e, c, v) ==
    /\ Quiet
    /\ \E x \in {ER_add_component(reg, store, e, c, v)} :
          /\ reg' = x.r
          /\ store' = x.s
          /\ res' = [RegRes("add_component", e, c, x) EXCEPT
                       !.out = <<v>>, !.pre = ER_snapshot(reg, store, e)]
    /\ calls' = calls + 1
    /\ UNCHANGED <<ents, par, RegRest>>

\* remove_component; trip records that it undoes the add_component just made
RegRemoveComponent(e, c) ==
    /\ Quiet
    /\ \E x \in {ER_remove_component(reg, store, e, c)} :
          /\ reg' = x.r
          /\ store' = x.s
          /\ res' = [RegRes("remove_component", e, c, x) EXCEPT
                       !.pre = ER_snapshot(reg, store, e),
                       !.trip = IF res.op = "add_component" /\ res.ret /\ res.e = e /\ res.c = c
                                THEN [some |-> TRUE, pre |-> res.pre] ELSE NoTrip]
    /\ calls' = calls + 1
    /\ UNCHANGED <<ents, par, RegRest>>

\* EntityFilter::for_each with a func that only looks at its arguments
RegForEach(q) ==
    /\ Quiet
    /\ store' = AS_query(store, q)
    /\ \E f \in {ER_for_each(AS_query(store, q), q)} :
          res' = RegRes("for_each", UninitEntity, q, [ret |-> TRUE, out |-> f.out, panic |-> f.panic])
    /\ calls' = calls + 1
    /\ UNCHANGED <<reg, ents, par, RegRest>>

\* the items IterArchetypeParallel::for_each hands to the pool for
\* archetype a: the collected used ranges, flattened
IAP_items_inclusive(s, a) ==
    [j \in 1..Len(IA_for_each(s, a)) + 1 |->
        IF j <= Len(IA_for_each(s, a)) THEN IA_for_each(s, a)[j]
        ELSE <<a, s.vec[a + 1].allocator.capacity>>]
IAP_items(s, a) == IA_for_each(s, a)

\* par_for_each: get_query and archetype_store.query(query)
ParBegin(q) ==
    /\ Quiet
    /\ store' = AS_query(store, q)
    /\ par' = [ParIdle EXCEPT !.active = TRUE, !.q = q, !.archs = AS_query(store, q).queries[q]]
    /\ res' = RegRes("par_begin", UninitEntity, q, [ret |-> TRUE, out |-> <<>>, panic |-> FALSE])
    /\ calls' = calls + 1
    /\ UNCHANGED <<reg, ents, RegRest>>

\* every thread of the pool is between two items
ParJoined == par.todo = {} /\ \A w \in Workers : par.held[w] = 0

\* IterArchetypeParallel::for_each on the next archetype of the query, up
\* to handing its items to the pool
ParArchetype ==
    /\ Running /\ par.active /\ ParJoined /\ par.archs # <<>>
    /\ IF ~IA_has_columns(store, Head(par.archs), QueryTypes[par.q].include)
       THEN /\ res' = RegRes("par_for_each", UninitEntity, par.q,
                             [ret |-> TRUE, out |-> <<>>, panic |-> TRUE])
            /\ par' = par
       ELSE /\ \E items \in {IAP_items(store, Head(par.archs))} :
                  par' = [par EXCEPT !.archs = Tail(@), !.items = items, !.todo = 1..Len(items)]
            /\ res' = res
    /\ UNCHANGED <<reg, store, ents, calls, RegRest>>

\* thread w of the pool takes an item no thread has taken
ParTake(w) ==
    /\ Running /\ par.active /\ par.held[w] = 0
    /\ \E i \in par.todo : par' = [par EXCEPT !.todo = @ \ {i}, !.held[w] = i]
    /\ UNCHANGED <<reg, store, ents, res, calls, RegRest>>

\* thread w calls func on its item
ParCall(w) ==
    /\ Running /\ par.active /\ par.held[w] # 0
    /\ par' = [par EXCEPT !.held[w] = 0, !.visited = @ (+) SetToBag({par.items[par.held[w]]})]
    /\ UNCHANGED <<reg, store, ents, res, calls, RegRest>>

\* par_for_each returns
ParEnd ==
    /\ Running /\ par.active /\ ParJoined /\ par.archs = <<>>
    /\ par' = [par EXCEPT !.active = FALSE]
    /\ res' = RegRes("par_for_each", UninitEntity, par.q, [ret |-> TRUE, out |-> <<>>, panic |-> FALSE])
    /\ UNCHANGED <<reg, store, ents, calls, RegRest>>

\* the lists destroy_entities is called with
DestroyLists == {<<e>> : e \in ents} \cup {<<e, f>> : e \in ents, f \in ents}

\* fewer than n calls were made
Budget(n) == calls < n

RegNext ==
    \/ \E cs \in RegComponentLists, cap \in MinCapacities : Budget(MaxCalls) /\ RegCreateArchetype(cs, cap)
    \/ \E a \in 0..Len(store.vec) - 1 : Budget(MaxCalls) /\ RegCreateEntity(a)
    \/ \E a \in 0..Len(store.vec) - 1, n \in 1..MaxEntities : Budget(MaxCalls) /\ RegCreateEntities(a, n)
    \/ \E es \in DestroyLists : Budget(MaxCalls) /\ Len(es) <= MaxDestroy /\ RegDestroyEntities(es)
    \/ \E e \in ents, c \in Comps, v \in Values : Budget(MaxCalls) /\ RegAddComponent(e, c, v)
    \/ \E e \in ents, c \in Comps : Budget(MaxCalls) /\ RegRemoveComponent(e, c)
    \/ \E q \in QueryIds : Budget(MaxCalls) /\ RegForEach(q)
    \/ \E q \in QueryIds : Budget(MaxCalls) /\ ParBegin(q)
    \/ ParArchetype
    \/ \E w \in Workers : ParTake(w)
    \/ \E w \in Workers : ParCall(w)
    \/ ParEnd

SpecReg == RegInit /\ [][RegNext]_vars

(***************************************************************************)
(* The same registry driven through create_archetype, create_entity,       *)
(* add_component and remove_component only, for longer runs                *)
(***************************************************************************)
MaxTripCalls == 7   \* calls made on the registry in one run

\* component lists handed to create_archetype
TripComponentLists == {<<1>>, <<1, 33, 33>>}

TripNext ==
    \/ \E cs \in TripComponentLists : Budget(MaxTripCalls) /\ RegCreateArchetype(cs, 0)
    \/ \E a \in 0..Len(store.vec) - 1 : Budget(MaxTripCalls) /\ RegCreateEntity(a)
    \/ \E e \in ents, v \in Values : Budget(MaxTripCalls) /\ RegAddComponent(e, 33, v)
    \/ \E e \in ents : Budget(MaxTripCalls) /\ RegRemoveComponent(e, 33)

SpecTrip == RegInit /\ [][TripNext]_vars

(***************************************************************************)
(* An EntityStore with its ArchetypeStore driven through create_archetype, *)
(* create_entity_from_archetype, create_entities_from_archetype,           *)
(* destroy_entities and get_component                                      *)
(***************************************************************************)
MaxStoreCalls == 4      \* calls made on the store in one run
MaxStoreEntities == 35  \* handles the creation calls return in one run

\* lengths of the slice handed to create_entities_from_archetype: a few
\* entities, and one more than a bit-field word holds
StoreBatches == {2, BITS + 1}
\* the handles handed to destroy_entities and get_component: two whose
\* instance indices share a bit-field word, and one in the next word
StoreHandles == {e \in ents : e.index \in {0, 1, BITS}}
\* the lists destroy_entities is called with: one handle, two handles (the
\* same one twice included), and a handle followed by another one twice
StoreDestroyLists ==
    {<<e>> : e \in StoreHandles} \cup {<<e, f>> : e \in StoreHandles, f \in StoreHandles}
        \cup {<<e, f, f>> : e \in StoreHandles, f \in StoreHandles}

StoreInit ==
    /\ build = "debug"
    /\ estore = ES_new
    /\ store = AS_new
    /\ ents = {}
    /\ dead = {}
    /\ calls = 0
    /\ res = RegRes("new", UninitEntity, 0, [ret |-> TRUE, out |-> <<>>, panic |-> FALSE])
    /\ alloc = Idle /\ live = Idle /\ full = Idle /\ arch = Idle /\ reg = Idle /\ par = Idle /\ bits = Idle /\ sys = Idle /\ statics = Idle

StoreRest == <<build, alloc, live, full, arch, reg, par, bits, sys, statics>>

\* ArchetypeStore::create_archetype through EcsContext
StoreCreateArchetype(cs) ==
    /\ Running
    /\ \E c \in {AS_create_archetype(store, cs)} :
          /\ store' = c.s
          /\ res' = RegRes("create_archetype", UninitEntity, 0,
                           [ret |-> TRUE, out |-> <<c.archetype>>, panic |-> FALSE])
    /\ calls' = calls + 1
    /\ UNCHANGED <<estore, ents, dead, StoreRest>>

\* what a store call x leaves behind
StoreDone(x, op) ==
    /\ estore' = x.es
    /\ store' = x.s
    /\ res' = RegRes(op, UninitEntity, 0, x)
    /\ calls' = calls + 1
    /\ UNCHANGED StoreRest

StoreCreateEntity(a) ==
    /\ Running
    /\ Cardinality(ents) < MaxStoreEntities
    /\ \E x \in {ES_create_entity_from_archetype(estore, store, a, build)} :
          /\ StoreDone(x, "create_entity")
          /\ ents' = IF x.panic THEN ents ELSE ents \cup {x.out[1]}
    /\ UNCHANGED dead

StoreCreateEntities(a, n) ==
    /\ Running
    /\ Cardinality(ents) + n <= MaxStoreEntities
    /\ \E x \in {ES_create_entities_from_archetype(estore, store, a, n)} :
          /\ StoreDone(x, "create_entities")
          /\ ents' = IF x.panic THEN ents ELSE ents \cup {x.out[i] : i \in 1..n}
    /\ UNCHANGED dead

StoreDestroyEntities(es) ==
    /\ Running
    /\ \E x \in {ES_destroy_entities(estore, store, es)} :
          /\ StoreDone([x EXCEPT !.out = es], "destroy_entities")
          /\ dead' = IF x.panic THEN dead ELSE dead \cup {es[k] : k \in DOMAIN es}
    /\ UNCHANGED ents

StoreGetComponent(e, c) ==
    /\ Running
    /\ \E g \in {ES_get_component(estore, store, e, c)} :
          res' = RegRes("get_component", e, c,
                        [ret |-> g.some, out |-> <<g.value>>, panic |-> g.panic])
    /\ calls' = calls + 1
    /\ UNCHANGED <<estore, store, ents, dead, StoreRest>>

StoreNext ==
    \/ Budget(MaxStoreCalls) /\ StoreCreateArchetype(<<1>>)
    \/ \E a \in 0..Len(store.vec) - 1 : Budget(MaxStoreCalls) /\ StoreCreateEntity(a)
    \/ \E a \in 0..Len(store.vec) - 1, n \in StoreBatches : Budget(MaxStoreCalls) /\ StoreCreateEntities(a, n)
    \/ \E es \in StoreDestroyLists : Budget(MaxStoreCalls) /\ StoreDestroyEntities(es)
    \/ \E e \in StoreHandles : Budget(MaxStoreCalls) /\ StoreGetComponent(e, 1)

SpecStore == StoreInit /\ [][StoreNext]_vars

(***************************************************************************)
(* BitField::is_subset_of on its own: the two bit fields are drawn from    *)
(* the bit fields of up to MaxWords words whose bits lie in WordBits; a    *)
(* bit field of n words is what with_capacity and set leave behind.        *)
(***************************************************************************)
MaxWords == 2       \* words of a BitField operand
\* the bit positions a word of an operand may hold: both ends of a word and
\* one bit next to an end
WordBits == {0, 1, BITS - 1}
\* the BitFields is_subset_of is called on
BitFields == UNION {[1..n -> SUBSET WordBits] : n \in 0..MaxWords}

SubsetInit ==
    /\ build = "debug"
    /\ bits \in [a : BitFields, b : BitFields]
    /\ res = NoRes
    /\ alloc = Idle /\ live = Idle /\ full = Idle
    /\ arch = Idle /\ store = Idle /\ reg = Idle /\ ents = Idle /\ par = Idle
    /\ estore = Idle /\ calls = Idle /\ dead = Idle /\ sys = Idle /\ statics = Idle

\* a.is_subset_of(&b)
IsSubsetOf ==
    /\ res.op = "none"
    /\ res' = [op |-> "is_subset_of", arg |-> <<0, 0>>, ok |-> BF_is_subset_of(bits.a, bits.b),
               out |-> <<>>, err |-> 0, panic |-> FALSE]
    /\ UNCHANGED <<build, raVars, ecsVars>>

\* a == b, and the words a.hash(state) and b.hash(state) feed to the hasher
EqAndHash ==
    /\ res.op = "none"
    /\ res' = [op |-> "eq", arg |-> <<0, 0>>, ok |-> BF_eq(bits.a, bits.b),
               out |-> <<BF_hash(bits.a), BF_hash(bits.b)>>, err |-> 0, panic |-> FALSE]
    /\ UNCHANGED <<build, raVars, ecsVars>>

SubsetNext == IsSubsetOf \/ EqAndHash

SpecSubset == SubsetInit /\ [][SubsetNext]_vars

\* the handles that still designate their instance
LiveEnts == {e \in ents : ER_valid(reg, e)}
\* the archetype handles of the store
Archetypes == 0..Len(store.vec) - 1
\* the component types of an archetype instance
ComponentSet(ai) == {ai.components[k] : k \in DOMAIN ai.components}
\* where the instance of handle e says the entity is
PlaceOf(e) == <<reg.instances[e.instance].archetype, reg.instances[e.instance].slot>>

\* C1: in every state the registry reaches by create_entity(_from_archetype),
\* create_entities_from_archetype, destroy_entities, add_component and
\* remove_component without panicking, the back-reference stored at every live
\* slot s of every archetype A designates an instance placed at (A, s), every
\* live entity is placed at a live slot of its archetype, and no two live
\* entities are placed at the same slot.
C1_SlotEntityBijection ==
    Running =>
        /\ \A a \in Archetypes : \A slot \in AI_live_slots(store.vec[a + 1]) :
              /\ slot < Len(store.vec[a + 1].entities)
              /\ store.vec[a + 1].entities[slot + 1].instance \in 1..Len(reg.instances)
              /\ PlaceOf(store.vec[a + 1].entities[slot + 1]) = <<a, slot>>
        /\ \A e \in LiveEnts : PlaceOf(e)[2] \in AI_live_slots(store.vec[PlaceOf(e)[1] + 1])
        /\ \A e, f \in LiveEnts : e # f => PlaceOf(e) # PlaceOf(f)

\* the part of C1 that does not read the back-references: every live entity is
\* placed at a live slot and no two at the same one
C1_PlacesOnly ==
    Running =>
        /\ \A e \in LiveEnts : PlaceOf(e)[2] \in AI_live_slots(store.vec[PlaceOf(e)[1] + 1])
        /\ \A e, f \in LiveEnts : e # f => PlaceOf(e) # PlaceOf(f)

\* C2: every handle destroy_entities was given, in a call that returned, has a
\* version that differs from the version stored at its index, so that
\* get_component and a further destroy_entities of it panic, whatever was
\* created since.
C2_DestroyedHandlesStale ==
    Running =>
        \A e \in dead :
            /\ estore.instances[e.index + 1].version # e.version
            /\ ES_get_component(estore, store, e, 1).panic
            /\ ES_destroy_entities(estore, store, <<e>>).panic

\* C3: for every query that has been used and every archetype of the store, the
\* archetype is in the query's cached list exactly when the query's include
\* set is a subset of the archetype's component set and the query's exclude
\* set, when it is not empty, is not a subset of it.
C3_QueryLists ==
    \A q \in DOMAIN store.queries : \A a \in Archetypes :
        (\E k \in DOMAIN store.queries[q] : store.queries[q][k] = a)
            <=> /\ {QueryTypes[q].include[k] : k \in DOMAIN QueryTypes[q].include} \subseteq ComponentSet(store.vec[a + 1])
                /\ \/ QueryTypes[q].exclude = <<>>
                   \/ ~({QueryTypes[q].exclude[k] : k \in DOMAIN QueryTypes[q].exclude}
                            \subseteq ComponentSet(store.vec[a + 1]))

\* C5: when add_component(e, T, v) returned true for an entity that was at
\* slot s of archetype S, e's instance points to a live slot of an archetype
\* whose component set is S's plus T, get_component(e, T) is v, every component
\* e had in S has the value it had, slot s of S is free, and once no live
\* entity is left in S the used ranges of S are empty.
C5_AddMovesEntity ==
    (res.op = "add_component" /\ res.ret /\ ~res.panic) =>
        /\ PlaceOf(res.e)[2] \in AI_live_slots(store.vec[PlaceOf(res.e)[1] + 1])
        /\ ComponentSet(store.vec[PlaceOf(res.e)[1] + 1])
              = ComponentSet(store.vec[res.pre.archetype + 1]) \cup {res.c}
        /\ ER_get_component(reg, store, res.e, res.c) = [some |-> TRUE, value |-> res.out[1], panic |-> FALSE]
        /\ \A c \in DOMAIN res.pre.vals :
              ER_get_component(reg, store, res.e, c) = [some |-> TRUE, value |-> res.pre.vals[c], panic |-> FALSE]
        /\ res.pre.slot \notin AI_live_slots(store.vec[res.pre.archetype + 1])
        /\ (\A f \in LiveEnts : PlaceOf(f)[1] # res.pre.archetype)
              => RA_used_ranges(store.vec[res.pre.archetype + 1].allocator) = <<>>

\* add_component moved the last entity out of an archetype in which it had a
\* component with a written value
C5_Witness ==
    /\ res.op = "add_component" /\ res.ret /\ ~res.panic
    /\ res.c = 33 /\ res.pre.archetype # 0
    /\ 1 \in DOMAIN res.pre.vals /\ res.pre.vals[1] = "a"
    /\ store.vec[res.pre.archetype + 1].allocator.capacity > 0
    /\ RA_used_ranges(store.vec[res.pre.archetype + 1].allocator) = <<>>

\* C6: add_component returns false exactly when the entity's archetype has the
\* component, remove_component exactly when it lacks it, and a call that
\* returns false leaves every entity instance, every archetype's allocator and
\* columns and the number of archetypes as they were.
C6_FalseChangesNothing ==
    /\ [](((res.op = "add_component" /\ ~res.panic) =>
              (~res.ret <=> res.c \in ComponentSet(store.vec[res.pre.archetype + 1])))
          /\ ((res.op = "remove_component" /\ ~res.panic) =>
              (~res.ret <=> res.c \notin ComponentSet(store.vec[res.pre.archetype + 1]))))
    /\ [][(/\ calls' = calls + 1
           /\ res'.op \in {"add_component", "remove_component"}
           /\ ~res'.ret /\ ~res'.panic)
          => /\ reg'.instances = reg.instances
             /\ Len(store'.vec) = Len(store.vec)
             /\ \A a \in Archetypes :
                   /\ store'.vec[a + 1].allocator = store.vec[a + 1].allocator
                   /\ store'.vec[a + 1].buffers = store.vec[a + 1].buffers]_vars

\* add_component returned false for an entity that has a written component
C6_Witness ==
    /\ res.op = "add_component" /\ ~res.ret /\ ~res.panic
    /\ res.c \in DOMAIN res.pre.vals /\ res.pre.vals[res.c] = "a"

\* the slots EntityFilter::for_each visits for the query of the par_for_each
\* that just returned, on the store it returned on
SeqVisits == ER_for_each(store, par.q)
\* the live slots of the archetypes the query lists
ListedLive ==
    UNION {{<<a, slot>> : slot \in AI_live_slots(store.vec[a + 1])} :
              a \in {store.queries[par.q][k] : k \in DOMAIN store.queries[par.q]}}

\* C8: a par_for_each that returns has called func on the same multiset of
\* slots as for_each does for that query on that store: each live slot of each
\* archetype the query lists exactly once and nothing else; it panics only
\* where for_each panics; and while it runs no two threads hold the same slot.
C8_ParVisitsAsForEach ==
    /\ (res.op = "par_for_each" /\ ~res.panic) =>
          /\ ~SeqVisits.panic
          /\ \A item \in BagToSet(par.visited) \cup {SeqVisits.out[k] : k \in DOMAIN SeqVisits.out} :
                CopiesIn(item, par.visited) = Cardinality({k \in DOMAIN SeqVisits.out : SeqVisits.out[k] = item})
          /\ \A item \in ListedLive : CopiesIn(item, par.visited) = 1
          /\ BagToSet(par.visited) \subseteq ListedLive
    /\ (res.op = "par_for_each" /\ res.panic) => SeqVisits.panic
    /\ (Running /\ par.active) =>
          \A w1, w2 \in Workers :
              (w1 # w2 /\ par.held[w1] # 0 /\ par.held[w2] # 0)
                  => par.items[par.held[w1]] # par.items[par.held[w2]]

\* par_for_each returned after visiting two slots of one archetype
C8_Witness ==
    /\ res.op = "par_for_each" /\ ~res.panic
    /\ \E a \in Archetypes : a # 0 /\ BagToSet(par.visited) = {<<a, 0>>, <<a, 1>>}

\* C4: when remove_component(e, T) follows add_component(e, T, v) that returned
\* true, it returns true, get_component(e, T) is absent, e is in the archetype
\* it was in before the add, and every component e had there has the value it
\* had before the add.
C4_RoundTrip ==
    (res.op = "remove_component" /\ res.trip.some /\ ~res.panic) =>
        /\ res.ret
        /\ ~ER_get_component(reg, store, res.e, res.c).some
        /\ PlaceOf(res.e)[1] = res.trip.pre.archetype
        /\ \A c \in DOMAIN res.trip.pre.vals :
              ER_get_component(reg, store, res.e, c) =
                  [some |-> TRUE, value |-> res.trip.pre.vals[c], panic |-> FALSE]

\* C9: when the blocks of a partition of the fully allocated [0, N) are freed in
\* any order, every free makes available() grow by exactly the length of the
\* freed block, and once every block is freed free_ranges() yields exactly the
\* single range [0, N).
C9_PartitionFree ==
    /\ []((full >= 1 /\ live = {}) => RA_free_ranges(alloc) = <<<<0, full>>>>)
    /\ [][res'.op = "free" => RA_available(alloc') = RA_available(alloc) + RLen(res'.arg)]_vars

\* the last block of a partition into several blocks has been freed, the blocks
\* not having been freed left to right
C9_Witness ==
    /\ full = MaxN
    /\ live = {}
    /\ res.op = "free"
    /\ res.arg = <<1, 2>>

\* C10: after any sequence of legal RangeAllocator calls the stored free ranges
\* are non-empty, pairwise disjoint, and no free range ends where another starts.
C10_FreeRangesMinimal ==
    /\ \A k \in DOMAIN alloc.ranges : alloc.ranges[k][1] < alloc.ranges[k][2]
    /\ \A j, k \in DOMAIN alloc.ranges :
          j # k => /\ RIdx(alloc.ranges[j]) \cap RIdx(alloc.ranges[k]) = {}
                   /\ alloc.ranges[j][2] # alloc.ranges[k][1]

\* C7 as stated: in every reachable state every column buffer of the archetype
\* has capacity equal to the capacity of the archetype's RangeAllocator.
C7_ColumnsEqualAllocator ==
    \A c \in DOMAIN arch.buffers : AB_capacity(arch.buffers[c]) = arch.allocator.capacity

\* C7: in every reachable state every column buffer of the archetype has the
\* capacity of the archetype's RangeAllocator when that capacity is at least 1,
\* and capacity 1 while the allocator's capacity is 0.
C7_ColumnsCoverAllocator ==
    \A c \in DOMAIN arch.buffers :
        AB_capacity(arch.buffers[c]) = (IF arch.allocator.capacity >= 1 THEN arch.allocator.capacity ELSE 1)

\* an archetype with two columns, constructed with capacity 0, grew twice
\* through take_slots and had a slot returned in between
C7_Witness ==
    /\ DOMAIN arch.buffers = {1, 33}
    /\ arch.allocator.capacity = 3
    /\ arch.allocator.used = 3
    /\ res.op = "take_slots"
    /\ \E k \in 1..3 : arch.buffers[1][k] = Dropped

\* the maximal non-empty runs of consecutive members of a set of indices, in
\* ascending order, as ranges
MaximalRuns(S) ==
    [i \in 1..Cardinality({s \in S : s - 1 \notin S}) |->
        <<SortedSeq({s \in S : s - 1 \notin S})[i],
          MinOf({e \in 1..(MaxCap + 1) :
                    e > SortedSeq({s \in S : s - 1 \notin S})[i] /\ e \notin S})>>]

\* the indices below capacity that no stored free range covers
NotFree(a) == (0..(a.capacity - 1)) \ SeqIdx(RA_free_ranges(a), 1)

\* C11: in every reachable state used_ranges() yields, in ascending order,
\* exactly the maximal non-empty intervals of [0, capacity) that no free range
\* covers.
C11_UsedRangesAreGaps ==
    Running => RA_used_ranges(alloc) = MaximalRuns(NotFree(alloc))

\* the keys of the stored free ranges of a that are at least n long
Fitting(a, n) == {k \in DOMAIN a.ranges : RLen(a.ranges[k]) >= n}

\* C12: every allocate(n) returns; it returns [s, s + n) for the lowest start s
\* of a stored free range at least n long and leaves capacity alone, or, when
\* no stored free range is that long, returns [capacity, capacity + n) and
\* grows capacity by exactly n; on an allocator that never had a free range
\* used_ranges() is then the single range [0, capacity).
C12_AllocateFirstFit ==
    [][res'.op = "allocate" =>
          /\ ~res'.panic
          /\ (Fitting(alloc, res'.arg[1]) # {}) =>
                /\ res'.out = <<<<MinOf(Fitting(alloc, res'.arg[1])),
                                  MinOf(Fitting(alloc, res'.arg[1])) + res'.arg[1]>>>>
                /\ alloc'.capacity = alloc.capacity
          /\ (Fitting(alloc, res'.arg[1]) = {}) =>
                /\ res'.out = <<<<alloc.capacity, alloc.capacity + res'.arg[1]>>>>
                /\ alloc'.capacity = alloc.capacity + res'.arg[1]
          /\ (alloc.ranges = EmptyMap /\ alloc.used = alloc.capacity /\ alloc'.capacity > 0) =>
                RA_used_ranges(alloc') = <<<<0, alloc'.capacity>>>>]_vars

RECURSIVE SumLen(_, _)
\* the total length of the ranges out[i..]
SumLen(out, i) == IF i > Len(out) THEN 0 ELSE RLen(out[i]) + SumLen(out, i + 1)

C14_FragmentedAllocation ==
    [][res'.op = "allocate_fragmented" =>
          /\ ~res'.panic
          /\ \A i \in 1..(Len(res'.out) - 1) : res'.out[i][1] < res'.out[i + 1][1]
          /\ \A i \in 1..Len(res'.out) : \A j \in (i + 1)..Len(res'.out) :
                RIdx(res'.out[i]) \cap RIdx(res'.out[j]) = {}
          /\ SeqIdx(res'.out, 1) \subseteq
                SeqIdx(RA_free_ranges(alloc), 1) \cup (alloc.capacity..(alloc'.capacity - 1))
          /\ SumLen(res'.out, 1) = res'.arg[1]
          /\ alloc'.capacity = alloc.capacity + Max(0, res'.arg[1] - RA_available(alloc))
          /\ alloc'.used = alloc.used + res'.arg[1]]_vars

\* allocate_fragmented took two free chunks apart from each other and new capacity
C14_Witness ==
    /\ res.op = "allocate_fragmented"
    /\ Len(res.out) = 3
    /\ res.out[1][2] < res.out[2][1]
    /\ res.out[3][2] = alloc.capacity

\* C15: used is the number of indices handed out and not yet freed, used
\* plus the total length of the stored free ranges is the capacity, and no
\* operation lowers the capacity.
C15_Accounting ==
    /\ [](/\ alloc.used = Cardinality(live)
          /\ alloc.used + SumLen(RA_free_ranges(alloc), 1) = alloc.capacity)
    /\ [][alloc'.capacity >= alloc.capacity]_vars

\* allocations, a free in the middle and a reserve have all happened
C15_Witness ==
    /\ res.op = "reserve" /\ res.arg[1] > 0
    /\ alloc.used = 2
    /\ Len(RA_free_ranges(alloc)) = 2

\* the instance indices of the destroyed handles that no later handle took over
Freed == {d.index : d \in {x \in dead : ~\E e \in ents : e.index = x.index /\ e.version > x.version}}

\* C16: a creation of no more entities than destroy_entities has freed
\* instance indices takes every instance index from the freed ones, leaves
\* the capacity of the instance allocator as it was, and gives each new
\* handle the version of the destroyed handle of its index plus 1.
C16_FreedIndicesReused ==
    [][(/\ res'.op \in {"create_entity", "create_entities"}
        /\ ~res'.panic
        /\ Freed # {}
        /\ Len(res'.out) <= Cardinality(Freed)) =>
          /\ \A i \in 1..Len(res'.out) :
                /\ res'.out[i].index \in Freed
                /\ \E d \in dead : /\ d.index = res'.out[i].index
                                   /\ res'.out[i].version = d.version + 1
          /\ estore'.allocator.capacity = estore.allocator.capacity]_vars

\* the archetype slot the instance table links handle e to
SlotOf(es, e) == es.instances[e.index + 1].slot

\* C17: create_entities_from_archetype(a, n) that returns gives n handles
\* whose instance indices are strictly ascending in output order, and the
\* archetype slots the instance table links them to are strictly ascending
\* in the same order.
C17_AscendingHandlesAndSlots ==
    [][(res'.op = "create_entities" /\ ~res'.panic) =>
          /\ Len(res'.out) \in StoreBatches
          /\ \A i \in 1..(Len(res'.out) - 1) :
                /\ res'.out[i].index < res'.out[i + 1].index
                /\ SlotOf(estore', res'.out[i]) < SlotOf(estore', res'.out[i + 1])]_vars

\* create_entities_from_archetype returned handles whose instance indices
\* are apart and whose slots are not their instance indices
C17_Witness ==
    /\ res.op = "create_entities" /\ ~res.panic
    /\ Len(res.out) = 2
    /\ res.out[2].index > res.out[1].index + 1
    /\ SlotOf(estore, res.out[1]) # res.out[1].index

\* the handles that occur more than once in the list es
Repeated(es) == {es[i] : i \in {i \in DOMAIN es : \E j \in DOMAIN es : j # i /\ es[j] = es[i]}}
\* the archetype instance the instance table of es places handle e in
HomeOf(es, s, e) == s.vec[es.instances[e.index + 1].archetype + 1]

\* C18: destroy_entities on a list of live handles that holds one of them
\* several times returns; that handle's slot is free in its archetype and
\* its cells dropped, its instance index is free, both allocators still
\* account for every index once, and its version is 1 higher.
C18_RepeatedHandleFreedOnce ==
    [][(/\ res'.op = "destroy_entities"
        /\ Repeated(res'.out) # {}
        /\ \A k \in DOMAIN res'.out :
              /\ res'.out[k].index < Len(estore.instances)
              /\ estore.instances[res'.out[k].index + 1].version = res'.out[k].version) =>
          /\ ~res'.panic
          /\ \A d \in Repeated(res'.out) :
                /\ estore'.instances[d.index + 1].version = d.version + 1
                /\ d.index \in SeqIdx(RA_free_ranges(estore'.allocator), 1)
                /\ estore'.allocator.used + SumLen(RA_free_ranges(estore'.allocator), 1)
                      = estore'.allocator.capacity
                /\ SlotOf(estore, d) \in SeqIdx(RA_free_ranges(HomeOf(estore, store', d).allocator), 1)
                /\ HomeOf(estore, store', d).allocator.used
                      + SumLen(RA_free_ranges(HomeOf(estore, store', d).allocator), 1)
                      = HomeOf(estore, store', d).allocator.capacity
                /\ \A c \in DOMAIN HomeOf(estore, store', d).buffers :
                      HomeOf(estore, store', d).buffers[c][SlotOf(estore, d) + 1] = Dropped]_vars

\* C19: create_entity_from_archetype and create_entities_from_archetype
\* return from every state, and leave an entry of the instance table for
\* every index below the capacity of the instance allocator.
C19_CreationCompletes ==
    [][res'.op \in {"create_entity", "create_entities"} =>
          /\ ~res'.panic
          /\ Len(estore'.instances) >= estore'.allocator.capacity]_vars

\* the positions of the bits set in the BitField values
BitsOf(values) == UNION {{BITS * (k - 1) + i : i \in values[k]} : k \in DOMAIN values}

\* C20: a.is_subset_of(b) is true exactly when every bit set in a is set in
\* b, whatever the lengths of a and b; the empty BitField is a subset of
\* every BitField.
C20_SubsetIsInclusion ==
    res.op = "is_subset_of" => (res.ok <=> BitsOf(bits.a) \subseteq BitsOf(bits.b))

(***************************************************************************)
(* is_subset_of on three BitFields a, b, c: the calls a.is_subset_of(&b),  *)
(* b.is_subset_of(&c) and a.is_subset_of(&c).                              *)
(***************************************************************************)
\* the bit positions a word of the three operands may hold
ChainBits == {0, 1}
\* the BitFields the three calls are made on
ChainFields == UNION {[1..n -> SUBSET ChainBits] : n \in 0..MaxWords}

ChainInit ==
    /\ build = "debug"
    /\ bits \in [a : ChainFields, b : ChainFields, c : ChainFields]
    /\ res = NoRes
    /\ alloc = Idle /\ live = Idle /\ full = Idle
    /\ arch = Idle /\ store = Idle /\ reg = Idle /\ ents = Idle /\ par = Idle
    /\ estore = Idle /\ calls = Idle /\ dead = Idle /\ sys = Idle /\ statics = Idle

\* a.is_subset_of(&b), b.is_subset_of(&c), a.is_subset_of(&c): out holds the
\* three results in that order
IsSubsetOfChain ==
    /\ res.op = "none"
    /\ res' = [op |-> "is_subset_of", arg |-> <<0, 0>>, ok |-> TRUE,
               out |-> <<BF_is_subset_of(bits.a, bits.b), BF_is_subset_of(bits.b, bits.c),
                         BF_is_subset_of(bits.a, bits.c)>>,
               err |-> 0, panic |-> FALSE]
    /\ UNCHANGED <<build, raVars, ecsVars>>

ChainNext == IsSubsetOfChain

SpecChain == ChainInit /\ [][ChainNext]_vars

\* C21: whenever a.is_subset_of(b) and b.is_subset_of(c) return true,
\* a.is_subset_of(c) returns true.
C21_SubsetTransitive ==
    (res.op = "is_subset_of" /\ res.out[1] /\ res.out[2]) => res.out[3]

(***************************************************************************)
(* BitField::iter_ranges on its own: the words of the BitField are drawn   *)
(* from the words with bits at both ends, and the word with every bit set. *)
(***************************************************************************)
MaxRangeWords == 3      \* words of the BitField iter_ranges walks
\* the words of that BitField
RangeWords == (SUBSET {0, 1, BITS - 2, BITS - 1}) \cup {ALL_BITS_SET}
\* the BitFields iter_ranges is called on
RangeFields == UNION {[1..n -> RangeWords] : n \in 0..MaxRangeWords}

RangesInit ==
    /\ build = "debug"
    /\ bits \in [a : RangeFields]
    /\ res = NoRes
    /\ alloc = Idle /\ live = Idle /\ full = Idle
    /\ arch = Idle /\ store = Idle /\ reg = Idle /\ ents = Idle /\ par = Idle
    /\ estore = Idle /\ calls = Idle /\ dead = Idle /\ sys = Idle /\ statics = Idle

\* a.iter_ranges().collect()
IterRanges ==
    /\ res.op = "none"
    /\ res' = [op |-> "iter_ranges", arg |-> <<0, 0>>, ok |-> TRUE,
               out |-> BF_iter_ranges(bits.a), err |-> 0, panic |-> FALSE]
    /\ UNCHANGED <<build, raVars, ecsVars>>

RangesNext == IterRanges

SpecRanges == RangesInit /\ [][RangesNext]_vars

\* the maximal runs of consecutive members of the set S of bit positions,
\* ascending, as half-open ranges
BitRuns(S) ==
    [i \in 1..Cardinality({s \in S : s - 1 \notin S}) |->
        <<SortedSeq({s \in S : s - 1 \notin S})[i],
          MinOf({e \in 1..(BITS * MaxRangeWords) :
                    e > SortedSeq({s \in S : s - 1 \notin S})[i] /\ e \notin S})>>]

\* C22: iter_ranges yields, ascending, exactly the maximal runs of
\* consecutive set bits as half-open ranges, a run that crosses a word
\* boundary being one range.
C22_IterRangesAreRuns ==
    res.op = "iter_ranges" => res.out = BitRuns(BitsOf(bits.a))

\* C23: a == b exactly when a and b have the same set bits, however many
\* zero words each stores at its end, and equal BitFields feed the same
\* words to the hasher.
C23_EqualityAndHash ==
    res.op = "eq" =>
        /\ res.ok <=> (BitsOf(bits.a) = BitsOf(bits.b))
        /\ res.ok => res.out[1] = res.out[2]

\* two equal BitFields with set bits were compared, one of them storing a zero
\* word more than the other
C23_Witness ==
    /\ res.op = "eq" /\ res.ok
    /\ Len(bits.a) # Len(bits.b)
    /\ bits.a # <<>> /\ bits.b # <<>>
    /\ BitsOf(bits.a) # {}

(***************************************************************************)
(* An ArchetypeStore on its own, driven through                            *)
(* create_archetype_with_capacity and get_archetype_transition.            *)
(***************************************************************************)
MaxKindCalls == 4       \* calls made on the ArchetypeStore in one run
\* component lists handed to create_archetype: the empty list, both orders
\* of two types, and lists that repeat a type
KindLists == {<<>>, <<1>>, <<33>>, <<1, 33>>, <<33, 1>>, <<1, 1>>, <<1, 33, 33>>}
TransitionKinds == {"Add", "Remove"}

KindsInit ==
    /\ build = "debug"
    /\ store = AS_new
    /\ calls = 0
    /\ res = NoRes
    /\ alloc = Idle /\ live = Idle /\ full = Idle
    /\ arch = Idle /\ reg = Idle /\ ents = Idle /\ par = Idle
    /\ estore = Idle /\ dead = Idle /\ bits = Idle /\ sys = Idle /\ statics = Idle

KindsRest == <<build, alloc, live, full, arch, reg, ents, par, estore, dead, bits, sys, statics>>

\* create_archetype_with_capacity(cs, cap)
KindsCreateArchetype(cs, cap) ==
    /\ calls < MaxKindCalls
    /\ \E c \in {AS_create_archetype_with_capacity(store, cs, cap)} :
          /\ store' = c.s
          /\ res' = [op |-> "create_archetype", arg |-> cs, ok |-> TRUE, out |-> <<c.archetype>>,
                     err |-> 0, panic |-> FALSE]
    /\ calls' = calls + 1
    /\ UNCHANGED KindsRest

\* get_archetype_transition({archetype, component, kind})
KindsTransition(archetype, component, kind) ==
    /\ calls < MaxKindCalls
    /\ \E t \in {AS_get_archetype_transition(store, archetype, component, kind)} :
          /\ store' = t.s
          /\ res' = [op |-> "transition", arg |-> <<archetype, component, kind>>, ok |-> t.some,
                     out |-> <<t.dst>>, err |-> 0, panic |-> FALSE]
    /\ calls' = calls + 1
    /\ UNCHANGED KindsRest

KindsNext ==
    \/ \E cs \in KindLists, cap \in MinCapacities : KindsCreateArchetype(cs, cap)
    \/ \E a \in 0..Len(store.vec) - 1, c \in Comps, k \in TransitionKinds : KindsTransition(a, c, k)

SpecKinds == KindsInit /\ [][KindsNext]_vars

\* the component kinds of the list cs
KindsOf(cs) == {cs[k] : k \in DOMAIN cs}

\* C24: create_archetype(_with_capacity) returns the handle of the archetype
\* that has the component kinds of the list, whatever the order and the
\* repetitions of the list, and a new handle, the next index, when no
\* archetype has them; index 0 has no components, no two archetypes have the
\* same kinds, and the archetypes already there keep their index and kinds.
C24_HandlePerKindSet ==
    /\ [](/\ ComponentSet(store.vec[1]) = {}
          /\ \A i \in DOMAIN store.vec : \A j \in DOMAIN store.vec :
                i # j => ComponentSet(store.vec[i]) # ComponentSet(store.vec[j]))
    /\ [][res'.op = "create_archetype" =>
             /\ \A i \in DOMAIN store.vec :
                   (res'.out[1] = i - 1) <=> (ComponentSet(store.vec[i]) = KindsOf(res'.arg))
             /\ res'.out[1] <= Len(store.vec)
             /\ Len(store'.vec) = IF res'.out[1] = Len(store.vec) THEN Len(store.vec) + 1
                                  ELSE Len(store.vec)
             /\ ComponentSet(store'.vec[res'.out[1] + 1]) = KindsOf(res'.arg)
             /\ \A i \in DOMAIN store.vec :
                   /\ ComponentSet(store'.vec[i]) = ComponentSet(store.vec[i])
                   /\ store'.vec[i].id = store.vec[i].id]_vars

\* create_archetype returned an archetype made earlier from another list of
\* the same kinds
C24_Witness ==
    /\ res.op = "create_archetype"
    /\ res.out[1] > 0
    /\ store.vec[res.out[1] + 1].components # res.arg
    /\ Len(store.vec) = 3

\* C25: get_archetype_transition({src, c, Add}) returns absent exactly when
\* c is a kind of src, and otherwise a dst other than src whose kinds are
\* those of src and c; for Remove it returns absent exactly when c is not a
\* kind of src, and otherwise a dst whose kinds are those of src without c;
\* the same request made again returns the same dst.
C25_TransitionTarget ==
    [][res'.op = "transition" =>
          /\ ~res'.ok <=> ((res'.arg[2] \in ComponentSet(store.vec[res'.arg[1] + 1]))
                              <=> (res'.arg[3] = "Add"))
          /\ res'.ok =>
                /\ res'.out[1] # res'.arg[1]
                /\ ComponentSet(store'.vec[res'.out[1] + 1]) =
                      IF res'.arg[3] = "Add"
                      THEN ComponentSet(store.vec[res'.arg[1] + 1]) \cup {res'.arg[2]}
                      ELSE ComponentSet(store.vec[res'.arg[1] + 1]) \ {res'.arg[2]}
                /\ AS_get_archetype_transition(store', res'.arg[1], res'.arg[2], res'.arg[3]).some
                /\ AS_get_archetype_transition(store', res'.arg[1], res'.arg[2], res'.arg[3]).dst
                      = res'.out[1]]_vars

(***************************************************************************)
(* SystemStore: [state, set, systems].  A system is [type, setups, runs]:  *)
(* its TypeId and how often its setup and run were entered.  Every         *)
(* operation returns [ss, panic].  A system's setup is code of the caller  *)
(* and may panic; the caller may catch the panic and go on using the       *)
(* store.                                                                  *)
(***************************************************************************)
\* SystemStore::new
SS_new == [state |-> "Uninitialized", set |-> {}, systems |-> <<>>]

\* SystemStore::add_system::<T>
SS_add_system(ss, T) ==
    IF ss.state = "Uninitialized"
    THEN IF T \in ss.set THEN [ss |-> ss, panic |-> TRUE]
         ELSE [ss |-> [ss EXCEPT !.set = @ \cup {T},
                                 !.systems = Append(@, [type |-> T, setups |-> 0, runs |-> 0])],
               panic |-> FALSE]
    ELSE [ss |-> ss, panic |-> TRUE]

\* self.systems.iter_mut().for_each(|s| s.setup(archetypes)), where the
\* setup of system number failing panics (0: none does)
SS_setup_each(systems, failing) ==
    [k \in DOMAIN systems |->
        IF failing = 0 \/ k <= failing THEN [systems[k] EXCEPT !.setups = @ + 1] ELSE systems[k]]

\* setup_systems that leaves the store ready for another setup
SS_setup_systems_again(ss, failing) ==
    IF ss.state = "Uninitialized"
    THEN [ss |-> [ss EXCEPT !.systems = SS_setup_each(@, failing)],
          panic |-> failing \in DOMAIN ss.systems]
    ELSE [ss |-> ss, panic |-> TRUE]

\* SystemStore::setup_systems
SS_setup_systems(ss, failing) ==
    IF ss.state = "Uninitialized"
    THEN IF failing \in DOMAIN ss.systems
         THEN [ss |-> [ss EXCEPT !.state = "Initializing", !.systems = SS_setup_each(@, failing)],
               panic |-> TRUE]
         ELSE [ss |-> [ss EXCEPT !.state = "Initialized", !.systems = SS_setup_each(@, 0)],
               panic |-> FALSE]
    ELSE [ss |-> ss, panic |-> TRUE]

\* SystemStore::run_systems
SS_run_systems(ss) ==
    IF ss.state = "Initialized"
    THEN [ss |-> [ss EXCEPT !.systems = [k \in DOMAIN @ |-> [@[k] EXCEPT !.runs = @ + 1]]],
          panic |-> FALSE]
    ELSE [ss |-> ss, panic |-> TRUE]

MaxSysCalls == 5        \* calls made on the SystemStore in one run
\* the system types handed to add_system
SystemTypes == {"S1", "S2"}

SysInit ==
    /\ build = "debug"
    /\ sys = SS_new
    /\ calls = 0
    /\ res = NoRes
    /\ alloc = Idle /\ live = Idle /\ full = Idle
    /\ arch = Idle /\ store = Idle /\ reg = Idle /\ ents = Idle /\ par = Idle
    /\ estore = Idle /\ dead = Idle /\ bits = Idle /\ statics = Idle

SysRest == <<build, alloc, live, full, arch, store, reg, ents, par, estore, dead, bits, statics>>

\* what a SystemStore call x leaves behind
SysDone(x, op) ==
    /\ calls < MaxSysCalls
    /\ sys' = x.ss
    /\ res' = [op |-> op, arg |-> <<0, 0>>, ok |-> ~x.panic, out |-> <<>>, err |-> 0,
               panic |-> x.panic]
    /\ calls' = calls + 1
    /\ UNCHANGED SysRest

AddSystem(T) == SysDone(SS_add_system(sys, T), "add_system")

SetupSystems(failing) == SysDone(SS_setup_systems(sys, failing), "setup_systems")

RunSystems == SysDone(SS_run_systems(sys), "run_systems")

SysNext ==
    \/ \E T \in SystemTypes : AddSystem(T)
    \/ \E failing \in 0..Cardinality(SystemTypes) : SetupSystems(failing)
    \/ RunSystems

SpecSys == SysInit /\ [][SysNext]_vars

\* the place of a state in Uninitialized -> Initializing -> Initialized
StateRank(state) ==
    CASE state = "Uninitialized" -> 0 [] state = "Initializing" -> 1 [] state = "Initialized" -> 2

\* C26: the state of the system store never moves backwards; add_system
\* returns only in Uninitialized and panics in the other two states;
\* setup_systems returns only in Uninitialized, then leaves Initialized, and
\* panics in the other two states; run_systems panics unless the state is
\* Initialized.
C26_SystemStoreStates ==
    [][/\ StateRank(sys'.state) >= StateRank(sys.state)
       /\ res'.op = "add_system" =>
             /\ ~res'.panic => sys.state = "Uninitialized"
             /\ sys.state # "Uninitialized" => res'.panic /\ sys' = sys
       /\ res'.op = "setup_systems" =>
             /\ ~res'.panic => sys.state = "Uninitialized" /\ sys'.state = "Initialized"
             /\ sys.state # "Uninitialized" => res'.panic /\ sys' = sys
       /\ res'.op = "run_systems" =>
             /\ res'.panic <=> sys.state # "Initialized"
             /\ res'.panic => sys' = sys]_vars

\* run_systems has run two systems after a setup_systems that returned, and
\* a second setup_systems has panicked since
C26_Witness ==
    /\ res.op = "setup_systems" /\ res.panic
    /\ sys.state = "Initialized"
    /\ Len(sys.systems) = 2
    /\ sys.systems[2].runs = 1

(***************************************************************************)
(* The process-wide interning tables of component sets and queries:        *)
(* statics = [heap, ttb, vtb, qtd, ptq, ttq, threads].  heap is the        *)
(* sequence of the BitFields Arc::new has allocated and a pointer is a     *)
(* position in it, 0 being EMPTY_BITFIELD; ttb is TYPE_TO_BITFIELD, vtb    *)
(* VEC_TO_BITFIELD, qtd QUERY_TO_DATA, ptq PTR_TO_QUERY, ttq               *)
(* TYPE_TO_QUERY.  A tuple type is the sequence of the component ids of    *)
(* its members, the TypeId of (I, E) the pair <<I, E>>.  A thread is       *)
(* [pc, key]: "idle", or "missed" between the read of TYPE_TO_QUERY and    *)
(* create_query.  create_query holds the write lock of TYPE_TO_QUERY from  *)
(* its first line to its return or panic, so it is one step.               *)
(***************************************************************************)
\* components.sort_by_key(|a| a.value())
CS_sorted(cs) ==
    CHOOSE s \in [1..Len(cs) -> {cs[k] : k \in DOMAIN cs}] :
        /\ \A k \in 1..(Len(cs) - 1) : s[k] <= s[k + 1]
        /\ \A c \in {cs[k] : k \in DOMAIN cs} :
              Cardinality({k \in DOMAIN s : s[k] = c}) = Cardinality({k \in DOMAIN cs : cs[k] = c})

\* the has_repeats of make_bitfield
CS_has_repeats(components) ==
    \E k \in DOMAIN components : \E j \in 1..(k - 1) : components[j] = components[k]

\* get_bitfield of a tuple with members, on a miss of both tables: make_bitfield,
\* Arc::new and the two inserts
CS_get_bitfield_new(g, tuple) ==
    [g |-> [g EXCEPT !.heap = Append(@, CS_make_bitfield(CS_sorted(tuple))),
                     !.vtb = (CS_sorted(tuple) :>
                                [ptr |-> Len(g.heap) + 1, repeats |-> CS_has_repeats(CS_sorted(tuple))]) @@ @,
                     !.ttb = (tuple :>
                                [ptr |-> Len(g.heap) + 1, repeats |-> CS_has_repeats(CS_sorted(tuple))]) @@ @],
     ptr |-> Len(g.heap) + 1,
     repeats |-> CS_has_repeats(CS_sorted(tuple))]

\* <tuple as ComponentSet>::get_bitfield: [g, ptr, repeats]
CS_get_bitfield(g, tuple) ==
    IF tuple = <<>> THEN [g |-> g, ptr |-> 0, repeats |-> FALSE]
    ELSE IF tuple \in DOMAIN g.ttb
    THEN [g |-> g, ptr |-> g.ttb[tuple].ptr, repeats |-> g.ttb[tuple].repeats]
    ELSE IF CS_sorted(tuple) \in DOMAIN g.vtb
    THEN [g |-> [g EXCEPT !.ttb = (tuple :> g.vtb[CS_sorted(tuple)]) @@ @],
          ptr |-> g.vtb[CS_sorted(tuple)].ptr, repeats |-> g.vtb[CS_sorted(tuple)].repeats]
    ELSE CS_get_bitfield_new(g, tuple)

\* create_query from let ptr = ... on
EQ_create_intern(g, key, ptr) ==
    IF ptr \in DOMAIN g.ptq THEN [g |-> g, query |-> g.ptq[ptr], panic |-> FALSE]
    ELSE [g |-> [g EXCEPT !.qtd = Append(@, [include |-> ptr[1], exclude |-> ptr[2]]),
                          !.ptq = (ptr :> Len(g.qtd)) @@ @,
                          !.ttq = (key :> Len(g.qtd)) @@ @],
          query |-> Len(g.qtd), panic |-> FALSE]

\* create_query that accepts an include tuple with repeats
EQ_create_with_unchecked(key, i, e) == EQ_create_intern(e.g, key, <<i.ptr, e.ptr>>)

\* create_query once I::get_bitfield returned i and E::get_bitfield returned e
EQ_create_with(key, i, e) ==
    IF i.repeats THEN [g |-> e.g, query |-> -1, panic |-> TRUE]
    ELSE EQ_create_intern(e.g, key, <<i.ptr, e.ptr>>)

\* create_query once I::get_bitfield returned i
EQ_create_exclude(key, i) == EQ_create_with(key, i, CS_get_bitfield(i.g, key[2]))

\* create_query::<I, E>(key): [g, query, panic]
EQ_create_query(g, key) == EQ_create_exclude(key, CS_get_bitfield(g, key[1]))

MaxQueryCalls == 4      \* calls of get_query in one run
QueryThreads == {1, 2}
\* the Include and Exclude tuples get_query is called with
IncludeTuples == {<<>>, <<1>>, <<1, 33>>, <<33, 1>>, <<1, 1>>}
ExcludeTuples == {<<>>, <<33>>, <<33, 33>>}

ThreadIdle == [pc |-> "idle", key |-> <<>>]

QueryInit ==
    /\ build = "debug"
    /\ statics = [heap |-> <<>>, ttb |-> NoMap, vtb |-> NoMap, qtd |-> <<>>, ptq |-> NoMap,
                  ttq |-> NoMap, threads |-> [t \in QueryThreads |-> ThreadIdle]]
    /\ ents = {}
    /\ dead = <<>>
    /\ calls = 0
    /\ res = NoRes
    /\ alloc = Idle /\ live = Idle /\ full = Idle
    /\ arch = Idle /\ store = Idle /\ reg = Idle /\ par = Idle
    /\ estore = Idle /\ bits = Idle /\ sys = Idle

QueryRest == <<build, alloc, live, full, arch, store, reg, par, estore, bits, sys>>

\* get_query on thread t finds the key in TYPE_TO_QUERY
QueryHit(t, key) ==
    /\ calls < MaxQueryCalls
    /\ statics.threads[t].pc = "idle"
    /\ key \in DOMAIN statics.ttq
    /\ res' = [op |-> "get_query", arg |-> key, ok |-> TRUE, out |-> <<statics.ttq[key]>>,
               err |-> 0, panic |-> FALSE]
    /\ ents' = ents \cup {<<key, statics.ttq[key]>>}
    /\ calls' = calls + 1
    /\ UNCHANGED <<statics, dead, QueryRest>>

\* get_query on thread t does not find the key and drops the read lock
QueryMiss(t, key) ==
    /\ calls < MaxQueryCalls
    /\ statics.threads[t].pc = "idle"
    /\ key \notin DOMAIN statics.ttq
    /\ statics' = [statics EXCEPT !.threads[t] = [pc |-> "missed", key |-> key]]
    /\ res' = [op |-> "get_query_miss", arg |-> key, ok |-> TRUE, out |-> <<>>, err |-> 0,
               panic |-> FALSE]
    /\ calls' = calls + 1
    /\ UNCHANGED <<ents, dead, QueryRest>>

\* create_query on thread t; a panic ends the thread, and t stands for the
\* next thread from then on
QueryCreate(t) ==
    /\ statics.threads[t].pc = "missed"
    /\ \E x \in {EQ_create_query(statics, statics.threads[t].key)} :
          /\ statics' = [x.g EXCEPT !.threads[t] = ThreadIdle]
          /\ res' = [op |-> "create_query", arg |-> statics.threads[t].key, ok |-> ~x.panic,
                     out |-> <<x.query>>, err |-> 0, panic |-> x.panic]
          /\ ents' = IF x.panic THEN ents ELSE ents \cup {<<statics.threads[t].key, x.query>>}
          /\ dead' = IF x.panic THEN Append(dead, statics.threads[t].key) ELSE dead
    /\ UNCHANGED <<calls, QueryRest>>

QueryNext ==
    \/ \E t \in QueryThreads, i \in IncludeTuples, e \in ExcludeTuples : QueryHit(t, <<i, e>>)
    \/ \E t \in QueryThreads, i \in IncludeTuples, e \in ExcludeTuples : QueryMiss(t, <<i, e>>)
    \/ \E t \in QueryThreads : QueryCreate(t)

SpecQuery == QueryInit /\ [][QueryNext]_vars

\* C27: two get_query calls whose Include tuples name the same component
\* kinds and whose Exclude tuples name the same component kinds return the
\* same handle, and QUERY_TO_DATA has one entry for each pair of kind sets
\* that a call has returned a handle for, whatever the threads the calls
\* were made on.
C27_OneHandlePerPair ==
    /\ \A r \in ents : \A q \in ents :
          (KindsOf(r[1][1]) = KindsOf(q[1][1]) /\ KindsOf(r[1][2]) = KindsOf(q[1][2]))
             => r[2] = q[2]
    /\ Len(statics.qtd) = Cardinality({<<KindsOf(r[1][1]), KindsOf(r[1][2])>> : r \in ents})

\* C28: get_query with an Include tuple that names a component kind twice
\* never returns: every such call reaches create_query and panics there, and
\* QUERY_TO_DATA, PTR_TO_QUERY and TYPE_TO_QUERY are as they were.
C28_RepeatedIncludePanics ==
    [][(res'.op \in {"get_query", "create_query"} /\ CS_has_repeats(res'.arg[1])) =>
          /\ res'.op = "create_query"
          /\ res'.panic
          /\ statics'.qtd = statics.qtd
          /\ statics'.ptq = statics.ptq
          /\ statics'.ttq = statics.ttq]_vars

\* create_query has panicked twice on the same pair of tuples
C28_Witness ==
    /\ res.op = "create_query" /\ res.panic
    /\ Len(dead) = 2
    /\ dead[1] = dead[2]
    /\ dead[1][2] # <<>>

(***************************************************************************)
(* The registries of one process: statics = [next_id, registries], NEXT_ID *)
(* and, in construction order, each registry's id and the number of        *)
(* entity handles it has made.                                             *)
(***************************************************************************)
MaxRegistries == 3      \* EntityRegistry instances constructed in one run
MaxIdEntities == 4      \* handles made by one registry

\* AtomicU32::fetch_and(val): [old, new], for val = 1
A32_fetch_and_1(v) == [old |-> v, new |-> v % 2]

IdsInit ==
    /\ build = "debug"
    /\ statics = [next_id |-> 1, registries |-> <<>>]
    /\ res = NoRes
    /\ alloc = Idle /\ live = Idle /\ full = Idle
    /\ arch = Idle /\ store = Idle /\ reg = Idle /\ ents = Idle /\ par = Idle
    /\ estore = Idle /\ calls = Idle /\ dead = Idle /\ bits = Idle /\ sys = Idle

IdsRest == <<build, raVars, arch, store, reg, ents, par, estore, calls, dead, bits, sys>>

\* EntityRegistry::new: id is what NEXT_ID.fetch_and(1, Relaxed) returns
NewRegistry ==
    /\ Len(statics.registries) < MaxRegistries
    /\ \E f \in {A32_fetch_and_1(statics.next_id)} :
          /\ statics' = [next_id |-> f.new,
                         registries |-> Append(statics.registries, [id |-> f.old, made |-> 0])]
          /\ res' = [op |-> "new", arg |-> <<f.old, 0>>, ok |-> TRUE, out |-> <<>>, err |-> 0,
                     panic |-> FALSE]
    /\ UNCHANGED IdsRest

\* create_entity on registry k: the handle carries registry_id: self.id
IdsCreateEntity(k) ==
    /\ statics.registries[k].made < MaxIdEntities
    /\ statics' = [statics EXCEPT !.registries[k].made = @ + 1]
    /\ res' = [op |-> "create_entity", arg |-> <<k, 0>>, ok |-> TRUE,
               out |-> <<[instance |-> statics.registries[k].made + 1,
                          registry_id |-> statics.registries[k].id, version |-> 1]>>,
               err |-> 0, panic |-> FALSE]
    /\ UNCHANGED IdsRest

IdsNext ==
    \/ NewRegistry
    \/ \E k \in DOMAIN statics.registries : IdsCreateEntity(k)

SpecIds == IdsInit /\ [][IdsNext]_vars

\* C29: any two EntityRegistry instances of the process have different
\* ids, so that the registry_id of a handle made by one of them is not the
\* id of another.
C29_DistinctRegistryIds ==
    /\ \A i \in DOMAIN statics.registries : \A j \in DOMAIN statics.registries :
          i # j => statics.registries[i].id # statics.registries[j].id
    /\ res.op = "create_entity" =>
          \A j \in DOMAIN statics.registries :
             j # res.arg[1] => res.out[1].registry_id # statics.registries[j].id

\* the live slots of the archetypes the match list of query q holds
MatchedLive(q) ==
    UNION {{<<a, slot>> : slot \in AI_live_slots(store.vec[a + 1])} :
              a \in {store.queries[q][k] : k \in DOMAIN store.queries[q]}}

\* C30: a for_each call returns after calling func once on every live slot
\* of every archetype of the query's match list and on no other slot, the
\* slots of one archetype in ascending order and the archetypes in the
\* order of the match list, which is ascending archetype index.
C30_ForEachOrder ==
    res.op = "for_each" =>
        /\ ~res.panic
        /\ \A item \in MatchedLive(res.c) :
              Cardinality({k \in DOMAIN res.out : res.out[k] = item}) = 1
        /\ \A k \in DOMAIN res.out : res.out[k] \in MatchedLive(res.c)
        /\ \A k \in DOMAIN res.out : \A j \in DOMAIN res.out :
              k < j => \/ res.out[k][1] < res.out[j][1]
                       \/ res.out[k][1] = res.out[j][1] /\ res.out[k][2] < res.out[j][2]
        /\ \A k \in DOMAIN store.queries[res.c] : \A j \in DOMAIN store.queries[res.c] :
              k < j => store.queries[res.c][k] < store.queries[res.c][j]

\* C31: after take_slots or take_slots_no_init the entities vector has an
\* element for every slot index below the slot allocator's capacity, and
\* it is no shorter than before the call.
C31_EntitiesCoverSlots ==
    [][res'.op \in {"take_slots", "take_slots_no_init"} =>
          /\ Len(arch'.entities) >= arch'.allocator.capacity
          /\ Len(arch'.entities) >= Len(arch.entities)]_vars

\* the archetype indices a scan of all archetypes finds for query q
FreshScan(q) == {i \in 0..(Len(store.vec) - 1) : AS_matches(store.vec[i + 1], q)}

\* C32: for every query that has been used, the cached match list holds
\* exactly the archetype indices a fresh scan with the same test finds,
\* each once, in ascending order.
C32_MatchListIsScan ==
    \A q \in DOMAIN store.queries :
        /\ {store.queries[q][k] : k \in DOMAIN store.queries[q]} = FreshScan(q)
        /\ \A k \in DOMAIN store.queries[q] : \A j \in DOMAIN store.queries[q] :
              k < j => store.queries[q][k] < store.queries[q][j]

\* an archetype created after the query was first used was appended to a
\* match list that already held an earlier archetype
C32_Witness ==
    /\ res.op = "create_archetype"
    /\ res.out = <<Len(store.vec) - 1>>
    /\ \E q \in DOMAIN store.queries :
          /\ Len(store.queries[q]) >= 2
          /\ store.queries[q][Len(store.queries[q])] = Len(store.vec) - 1

\* the four allocating functions of RangeAllocator
AllocatingOps == {"allocate", "try_allocate", "allocate_fragmented", "try_allocate_fragmented"}

\* C33: the ranges an allocating call returns hold no index of a range that
\* was returned earlier and has not been freed, and do not overlap each other.
C33_NoOverlap ==
    [][(res'.op \in AllocatingOps /\ res'.ok /\ ~res'.panic) =>
          /\ SeqIdx(res'.out, 1) \cap live = {}
          /\ Cardinality(SeqIdx(res'.out, 1)) = SumLen(res'.out, 1)]_vars

\* an allocating call returned a range below indices that are still
\* allocated, with a free range left further up
C33_Witness ==
    /\ res.op \in AllocatingOps /\ res.ok /\ ~res.panic
    /\ res.out # <<>>
    /\ \E i \in live : i >= res.out[Len(res.out)][2]
    /\ \E k \in DOMAIN alloc.ranges : alloc.ranges[k][1] > res.out[Len(res.out)][2]

(***************************************************************************)
(* EntityStore::destroy_entities on lists that name a handle again after   *)
(* a handle of another archetype                                           *)
(***************************************************************************)
MaxSplitCalls == 5      \* calls in one run of the split destroy lists

\* the handles handed to destroy_entities: the first three instances
SplitHandles == {e \in ents : e.index \in {0, 1, 2}}
\* one handle, two handles, and a handle before and after another one
SplitDestroyLists ==
    {<<e>> : e \in SplitHandles} \cup {<<e, f>> : e \in SplitHandles, f \in SplitHandles}
        \cup {<<f, e, f>> : e \in SplitHandles, f \in SplitHandles}

SplitNext ==
    \/ Budget(MaxSplitCalls) /\ StoreCreateArchetype(<<1>>)
    \/ \E a \in 0..Len(store.vec) - 1 : Budget(MaxSplitCalls) /\ StoreCreateEntity(a)
    \/ \E a \in 0..Len(store.vec) - 1 : Budget(MaxSplitCalls) /\ StoreCreateEntities(a, 2)
    \/ \E es \in SplitDestroyLists : Budget(MaxSplitCalls) /\ StoreDestroyEntities(es)

SpecSplit == StoreInit /\ [][SplitNext]_vars

\* the handles of list es whose instance is placed in archetype a of es0
DestroyedIn(es0, es, a) ==
    {e \in {es[k] : k \in DOMAIN es} : es0.instances[e.index + 1].archetype = a}

\* C34: a destroy_entities call that returns lowers the used count of every
\* archetype's slot allocator by exactly the number of distinct entities of
\* the list placed in it, however the repeats of a handle are spread over
\* the list: no slot is freed twice.
C34_DestroyFreesOnce ==
    [][(res'.op = "destroy_entities" /\ ~res'.panic) =>
          \A a \in 0..(Len(store.vec) - 1) :
              store'.vec[a + 1].allocator.used =
                  store.vec[a + 1].allocator.used - Cardinality(DestroyedIn(estore, res'.out, a))]_vars

\* C35: an add_component or remove_component that returns true leaves the
\* handle valid with its instance index and version, and leaves every other
\* instance (archetype, slot, version) and every other live entity's
\* component values as they were.
C35_TransitionFrame ==
    [][(/\ calls' = calls + 1
        /\ res'.op \in {"add_component", "remove_component"}
        /\ res'.ret /\ ~res'.panic) =>
          /\ ER_valid(reg', res'.e)
          /\ reg'.instances[res'.e.instance].version = reg.instances[res'.e.instance].version
          /\ Len(reg'.instances) = Len(reg.instances)
          /\ \A p \in 1..Len(reg.instances) :
                p # res'.e.instance => reg'.instances[p] = reg.instances[p]
          /\ \A f \in LiveEnts :
                f # res'.e => ER_snapshot(reg', store', f) = ER_snapshot(reg, store, f)]_vars

\* a component was added to one of two entities of an archetype, the other
\* one holding a written value
C35_Witness ==
    /\ res.op = "add_component" /\ res.ret /\ ~res.panic
    /\ \E f \in LiveEnts :
          /\ f # res.e
          /\ PlaceOf(f)[1] = res.pre.archetype
          /\ \E c \in DOMAIN ER_snapshot(reg, store, f).vals : ER_snapshot(reg, store, f).vals[c] = "a"

\* the handles of ents that carry the version of their instance
ValidHandles == {e \in ents : e.index < Len(estore.instances)
                              /\ estore.instances[e.index + 1].version = e.version}

\* C36: no creation call returns a handle (index, version) that a creation
\* call returned before or that it returns twice, and at most one handle
\* is valid per instance index.
C36_HandlesNeverRepeat ==
    /\ [](\A e \in ValidHandles : \A f \in ValidHandles : e.index = f.index => e = f)
    /\ [][(res'.op \in {"create_entity", "create_entities"} /\ ~res'.panic) =>
             /\ \A k \in DOMAIN res'.out : res'.out[k] \notin ents
             /\ \A k \in DOMAIN res'.out : \A j \in DOMAIN res'.out :
                   k # j => res'.out[k] # res'.out[j]]_vars

\* a creation call returned the instance index of a destroyed handle
C36_Witness ==
    /\ res.op \in {"create_entity", "create_entities"} /\ ~res.panic
    /\ \E k \in DOMAIN res.out : \E d \in dead :
          d.index = res.out[k].index /\ d.version < res.out[k].version

\* every cell of a live slot of archetype instance ai holds a value, and
\* the used ranges a drop of ai walks name every live slot once
LiveCellsInitialised(ai) ==
    /\ \A slot \in AI_live_slots(ai) : \A c \in DOMAIN ai.buffers :
          /\ slot < Len(ai.buffers[c])
          /\ ai.buffers[c][slot + 1] \notin {Uninit, Dropped}
    /\ Len(Flatten(RA_used_ranges(ai.allocator), 1)) = Cardinality(AI_live_slots(ai))

\* C37: between calls every cell of a live slot holds an initialised value
\* and the used ranges the drop walks name each live slot once; a value
\* that remove_component drops is not left behind in a live slot (where the
\* next destroy or the drop of the registry would drop it again), so the
\* entity's archetype after the call has no column of the removed kind.
C37_ValuesDroppedOnce ==
    /\ [](Running => \A a \in Archetypes : LiveCellsInitialised(store.vec[a + 1]))
    /\ [][(/\ calls' = calls + 1
           /\ res'.op = "remove_component" /\ res'.ret /\ ~res'.panic) =>
             res'.c \notin DOMAIN store'.vec[reg'.instances[res'.e.instance].archetype + 1].buffers]_vars

\* C38: when try_allocate(n) returns Err(d), available() was below n, d is
\* n - available(), a positive number whose subtraction does not underflow,
\* and the allocator is as it was; and every allocate(n) returns.
C38_ErrMeansNoSpace ==
    /\ [][(res'.op = "try_allocate" /\ ~res'.ok) =>
             /\ RA_available(alloc) < res'.arg[1]
             /\ res'.err = res'.arg[1] - RA_available(alloc)
             /\ res'.err > 0
             /\ ~res'.panic
             /\ alloc' = alloc]_vars
    /\ [][res'.op = "allocate" => ~res'.panic]_vars

(***************************************************************************)
(* The locks of the interning tables.  statics is the record of the        *)
(* tables above with threads [pc, key, tuple, phase, q, i, e, held, last]: *)
(* held is the sequence of <<lock, mode>> the thread holds in the order    *)
(* it acquired them, mode "r" or "w" (a Mutex is held in mode "w").  A     *)
(* step that acquires a lock waits until the lock can be taken; the steps  *)
(* in between run what the code does while it holds the locks.             *)
(***************************************************************************)
MaxLockCalls == 3       \* calls started in one run
LockThreads == {1, 2}
\* the Include and Exclude tuples get_query is called with
LockIncludes == {<<>>, <<1>>, <<1, 1>>}
LockExcludes == {<<>>, <<33>>}
\* the tuples get_bitfield is called with on its own
LockTuples == {<<1>>, <<33>>}

\* EMPTY_BITFIELD.clone() as get_bitfield returns it
EmptyBits == [ptr |-> 0, repeats |-> FALSE]

LockThreadIdle ==
    [pc |-> "idle", key |-> <<>>, tuple |-> <<>>, phase |-> "none", q |-> 0,
     i |-> EmptyBits, e |-> EmptyBits, held |-> <<>>, last |-> "none"]

\* the threads that hold lock l, and those that hold it for writing
LK_holders(g, l) ==
    {t \in DOMAIN g.threads : \E k \in DOMAIN g.threads[t].held : g.threads[t].held[k][1] = l}
LK_writers(g, l) ==
    {t \in DOMAIN g.threads : \E k \in DOMAIN g.threads[t].held : g.threads[t].held[k] = <<l, "w">>}

\* RwLock::read returns
RW_can_read(g, l) == LK_writers(g, l) = {}
\* RwLock::write and Mutex::lock return
RW_can_write(g, l) == LK_holders(g, l) = {}

\* the guards dropped when the n innermost scopes end
LK_drop_last(held, n) == SubSeq(held, 1, Len(held) - n)

\* get_query that keeps the read guard of TYPE_TO_QUERY over create_query
EQ_get_query_miss_keeping(held) == held

\* get_query, None arm: drop(ttq)
EQ_get_query_miss(held) == LK_drop_last(held, 1)

\* a call that returned or panicked: every guard is dropped
LK_done(th, how) == [LockThreadIdle EXCEPT !.last = how]

\* create_query after E::get_bitfield returned
CQ_after_exclude(th) ==
    IF th.i.repeats THEN LK_done(th, "panicked") ELSE [th EXCEPT !.pc = "cq_ptq"]

\* create_query after I::get_bitfield returned
CQ_after_include(th) ==
    IF th.key[2] = <<>> THEN CQ_after_exclude([th EXCEPT !.e = EmptyBits])
    ELSE [th EXCEPT !.pc = "gb_ttb", !.tuple = th.key[2], !.phase = "exclude"]

\* create_query after TYPE_TO_QUERY.write() returned
CQ_after_write(th) ==
    IF th.key[1] = <<>> THEN CQ_after_include([th EXCEPT !.i = EmptyBits])
    ELSE [th EXCEPT !.pc = "gb_ttb", !.tuple = th.key[1], !.phase = "include"]

\* get_bitfield returns r with n guards to drop
CS_get_bitfield_return(th, r, n) ==
    IF th.phase = "alone" THEN LK_done(th, "returned")
    ELSE IF th.phase = "include"
    THEN CQ_after_include([th EXCEPT !.i = r, !.held = LK_drop_last(@, n)])
    ELSE CQ_after_exclude([th EXCEPT !.e = r, !.held = LK_drop_last(@, n)])

LocksInit ==
    /\ build = "debug"
    /\ statics = [heap |-> <<>>, ttb |-> NoMap, vtb |-> NoMap, qtd |-> <<>>, ptq |-> NoMap,
                  ttq |-> NoMap, threads |-> [t \in LockThreads |-> LockThreadIdle]]
    /\ calls = 0
    /\ res = NoRes
    /\ alloc = Idle /\ live = Idle /\ full = Idle
    /\ arch = Idle /\ store = Idle /\ reg = Idle /\ ents = Idle /\ par = Idle
    /\ estore = Idle /\ dead = Idle /\ bits = Idle /\ sys = Idle

LocksRest == <<build, alloc, live, res, full, arch, store, reg, ents, par, estore, dead, bits, sys>>

\* thread t becomes th
LockMove(t, th) ==
    /\ statics' = [statics EXCEPT !.threads[t] = th]
    /\ UNCHANGED <<calls, LocksRest>>

\* thread t becomes th on the tables g
LockMoveOn(g, t, th) ==
    /\ statics' = [g EXCEPT !.threads[t] = th]
    /\ UNCHANGED <<calls, LocksRest>>

\* thread t starts a call
LockBegin(t, th) ==
    /\ calls < MaxLockCalls
    /\ statics.threads[t].pc = "idle"
    /\ statics' = [statics EXCEPT !.threads[t] = th]
    /\ calls' = calls + 1
    /\ UNCHANGED LocksRest

LkGetQuery(t, key) == LockBegin(t, [LockThreadIdle EXCEPT !.pc = "gq_read", !.key = key])

LkGetBitfield(t, tuple) ==
    LockBegin(t, [LockThreadIdle EXCEPT !.pc = "gb_ttb", !.tuple = tuple, !.phase = "alone"])

LkGetQueryData(t, q) ==
    /\ q < Len(statics.qtd)
    /\ LockBegin(t, [LockThreadIdle EXCEPT !.pc = "qd_read", !.q = q])

\* get_query: TYPE_TO_QUERY.read()
LkReadTtq(t) ==
    /\ statics.threads[t].pc = "gq_read"
    /\ RW_can_read(statics, "ttq")
    /\ LockMove(t, [statics.threads[t] EXCEPT !.pc = "gq_match", !.held = Append(@, <<"ttq", "r">>)])

\* get_query: match ttq.get(&key)
LkMatch(t) ==
    /\ statics.threads[t].pc = "gq_match"
    /\ IF statics.threads[t].key \in DOMAIN statics.ttq
       THEN LockMove(t, LK_done(statics.threads[t], "returned"))
       ELSE LockMove(t, [statics.threads[t] EXCEPT !.pc = "cq_write", !.held = EQ_get_query_miss(@)])

\* create_query: TYPE_TO_QUERY.write()
LkWriteTtq(t) ==
    /\ statics.threads[t].pc = "cq_write"
    /\ RW_can_write(statics, "ttq")
    /\ LockMove(t, CQ_after_write([statics.threads[t] EXCEPT !.held = Append(@, <<"ttq", "w">>)]))

\* get_bitfield: TYPE_TO_BITFIELD.lock()
LkLockTtb(t) ==
    /\ statics.threads[t].pc = "gb_ttb"
    /\ RW_can_write(statics, "ttb")
    /\ LockMove(t, [statics.threads[t] EXCEPT !.pc = "gb_lookup", !.held = Append(@, <<"ttb", "w">>)])

\* get_bitfield: ttb.get(&key)
LkLookup(t) ==
    /\ statics.threads[t].pc = "gb_lookup"
    /\ IF statics.threads[t].tuple \in DOMAIN statics.ttb
       THEN LockMove(t, CS_get_bitfield_return(statics.threads[t],
                                               statics.ttb[statics.threads[t].tuple], 1))
       ELSE LockMove(t, [statics.threads[t] EXCEPT !.pc = "gb_vtb"])

\* get_bitfield: VEC_TO_BITFIELD.lock()
LkLockVtb(t) ==
    /\ statics.threads[t].pc = "gb_vtb"
    /\ RW_can_write(statics, "vtb")
    /\ LockMove(t, [statics.threads[t] EXCEPT !.pc = "gb_fill", !.held = Append(@, <<"vtb", "w">>)])

\* get_bitfield from vtb.get(&components) to its return
LkFill(t) ==
    /\ statics.threads[t].pc = "gb_fill"
    /\ \E x \in {CS_get_bitfield(statics, statics.threads[t].tuple)} :
          LockMoveOn(x.g, t, CS_get_bitfield_return(statics.threads[t],
                                                    [ptr |-> x.ptr, repeats |-> x.repeats], 2))

\* create_query: PTR_TO_QUERY.write()
LkWritePtq(t) ==
    /\ statics.threads[t].pc = "cq_ptq"
    /\ RW_can_write(statics, "ptq")
    /\ LockMove(t, [statics.threads[t] EXCEPT !.pc = "cq_found", !.held = Append(@, <<"ptq", "w">>)])

\* create_query: if let Some(query) = ptq.get(&ptr)
LkFound(t) ==
    /\ statics.threads[t].pc = "cq_found"
    /\ IF <<statics.threads[t].i.ptr, statics.threads[t].e.ptr>> \in DOMAIN statics.ptq
       THEN LockMove(t, LK_done(statics.threads[t], "returned"))
       ELSE LockMove(t, [statics.threads[t] EXCEPT !.pc = "cq_qtd"])

\* create_query: QUERY_TO_DATA.write()
LkWriteQtd(t) ==
    /\ statics.threads[t].pc = "cq_qtd"
    /\ RW_can_write(statics, "qtd")
    /\ LockMove(t, [statics.threads[t] EXCEPT !.pc = "cq_push", !.held = Append(@, <<"qtd", "w">>)])

\* create_query: the push, the two inserts and the return
LkPush(t) ==
    /\ statics.threads[t].pc = "cq_push"
    /\ \E x \in {EQ_create_intern(statics, statics.threads[t].key,
                                  <<statics.threads[t].i.ptr, statics.threads[t].e.ptr>>)} :
          LockMoveOn(x.g, t, LK_done(statics.threads[t], "returned"))

\* get_query_data: QUERY_TO_DATA.read()
LkReadQtd(t) ==
    /\ statics.threads[t].pc = "qd_read"
    /\ RW_can_read(statics, "qtd")
    /\ LockMove(t, [statics.threads[t] EXCEPT !.pc = "qd_clone", !.held = Append(@, <<"qtd", "r">>)])

\* get_query_data: vec[query.index].clone() and the return
LkClone(t) ==
    /\ statics.threads[t].pc = "qd_clone"
    /\ LockMove(t, LK_done(statics.threads[t], "returned"))

\* a step of a call thread t has started
LockStep(t) ==
    \/ LkReadTtq(t) \/ LkMatch(t) \/ LkWriteTtq(t)
    \/ LkLockTtb(t) \/ LkLookup(t) \/ LkLockVtb(t) \/ LkFill(t)
    \/ LkWritePtq(t) \/ LkFound(t) \/ LkWriteQtd(t) \/ LkPush(t)
    \/ LkReadQtd(t) \/ LkClone(t)

LocksNext ==
    \/ \E t \in LockThreads, i \in LockIncludes, e \in LockExcludes : LkGetQuery(t, <<i, e>>)
    \/ \E t \in LockThreads, tuple \in LockTuples : LkGetBitfield(t, tuple)
    \/ \E t \in LockThreads, q \in 0..1 : LkGetQueryData(t, q)
    \/ \E t \in LockThreads : LockStep(t)

\* the scheduler runs every thread that can take a step, and a lock that is
\* free goes to a thread that waits for it
SpecLocks == LocksInit /\ [][LocksNext]_vars /\ \A t \in LockThreads : WF_vars(LockStep(t))

\* the place of each lock in the order create_query takes them
LockRank == [ttq |-> 1, ttb |-> 2, vtb |-> 3, ptq |-> 4, qtd |-> 5]

\* thread t waits for a lock that it cannot take now
LockBlocked(t) ==
    \/ statics.threads[t].pc = "gq_read" /\ ~RW_can_read(statics, "ttq")
    \/ statics.threads[t].pc = "cq_write" /\ ~RW_can_write(statics, "ttq")
    \/ statics.threads[t].pc = "gb_ttb" /\ ~RW_can_write(statics, "ttb")
    \/ statics.threads[t].pc = "gb_vtb" /\ ~RW_can_write(statics, "vtb")
    \/ statics.threads[t].pc = "cq_ptq" /\ ~RW_can_write(statics, "ptq")
    \/ statics.threads[t].pc = "cq_qtd" /\ ~RW_can_write(statics, "qtd")
    \/ statics.threads[t].pc = "qd_read" /\ ~RW_can_read(statics, "qtd")

\* C39: threads calling get_query, get_bitfield and get_query_data never
\* deadlock: every thread holds its locks in the order TYPE_TO_QUERY,
\* TYPE_TO_BITFIELD, VEC_TO_BITFIELD, PTR_TO_QUERY, QUERY_TO_DATA, whenever
\* a call is under way some thread can take a step, and every call that
\* was started ends.
C39_NoDeadlock ==
    /\ [](/\ \A t \in LockThreads : \A k \in DOMAIN statics.threads[t].held :
                \A j \in DOMAIN statics.threads[t].held :
                    k < j => LockRank[statics.threads[t].held[k][1]]
                                < LockRank[statics.threads[t].held[j][1]]
          /\ (\E t \in LockThreads : statics.threads[t].pc # "idle")
                => \E t \in LockThreads : statics.threads[t].pc # "idle" /\ ~LockBlocked(t))
    /\ \A t \in LockThreads :
          (statics.threads[t].pc # "idle") ~> (statics.threads[t].pc = "idle")

\* a thread holds TYPE_TO_QUERY, TYPE_TO_BITFIELD and VEC_TO_BITFIELD while
\* the other waits for the write lock of TYPE_TO_QUERY with the same key
C39_Witness ==
    \E t \in LockThreads : \E u \in LockThreads :
        /\ statics.threads[t].pc = "gb_fill"
        /\ Len(statics.threads[t].held) = 3
        /\ statics.threads[u].pc = "cq_write"
        /\ statics.threads[u].key = statics.threads[t].key

====
